---- MODULE Spec2Model ----
(***************************************************************************)
(* Model of the dotxch resolver: the ledger data the NodeClient reads      *)
(* (identity-puzzle marker coins, singleton lineages, the last transaction *)
(* block) and the NodeClient operations discover_all_domains,              *)
(* filter_domains, get_latest_domain_state and resolve_domain of           *)
(* resolver/core/client_funcs.py, together with DomainRecord's status      *)
(* classification of resolver/types/domain_record.py.                      *)
(***************************************************************************)
EXTENDS Integers, Sequences, FiniteSets, Bags, TLC

(* ------------------------------------------------------------------ *)
(* Protocol constants (resolver/puzzles/domain_constants.py)          *)
(* ------------------------------------------------------------------ *)
year == 31556926
month == 2629743
REGISTRATION_LENGTH == year
GRACE_PERIOD == month
MAX_REGISTRATION_GAP == REGISTRATION_LENGTH + GRACE_PERIOD

(* ------------------------------------------------------------------ *)
(* Bounds of the model                                                *)
(* ------------------------------------------------------------------ *)
\* timestamp of the first transaction block of the model
T0 == 1000
\* height of the first transaction block of the model
BaseHeight == 100
\* number of transaction blocks farmed after the first one
MaxBlocks == 2
\* number of spend bundles the ledger confirms at most
MaxBundles == 2
\* number of spend bundles confirmed at most on the ledger followed without a resolver
MaxEvents == 4

\* launcher ids, as byte strings: 0xAA and 0xBB
LauncherIds == {<<170>>, <<187>>}
\* the value of an absent Optional launcher id
NoLauncher == <<>>
\* the domain name every coin of the model is registered under
DomainName == "alice.example"
\* the timestamps a transaction block can carry, relative to T0
Offsets ==
    {0, REGISTRATION_LENGTH - 1000, REGISTRATION_LENGTH - 500,
     REGISTRATION_LENGTH + GRACE_PERIOD + 1}
TimePoints == {T0 + d : d \in Offsets}
PubKeys == {"pk1", "pk2"}
Metadatas == {"m1", "m2"}

(* ------------------------------------------------------------------ *)
(* ResolutionStatusCode (resolver/types/resolution_status_code.py)    *)
(* ------------------------------------------------------------------ *)
ResolutionStatusCode ==
    {"NOT_FOUND", "INVALID", "CONFLICTING", "EXPIRED", "GRACE_PERIOD", "FOUND", "LATEST"}

\* the value of an absent Optional[DomainRecord]
NoRecord == [tag |-> "None"]

\* ResolutionResult(domain_name, status_code, domain_record)
ResolutionResult(domain_name, status_code, domain_record) ==
    [domain_name |-> domain_name, status_code |-> status_code, domain_record |-> domain_record]

(* ------------------------------------------------------------------ *)
(* DomainRecord (resolver/types/domain_record.py)                     *)
(* ------------------------------------------------------------------ *)
grace_period_timestamp(rec) == rec.expiration_timestamp + GRACE_PERIOD

is_expired(rec, current_timestamp) == rec.expiration_timestamp < current_timestamp

\* in_grace_period with the end of the grace period included: the variant C2 rules out
in_grace_period_inclusive(rec, current_timestamp) ==
    /\ rec.expiration_timestamp < current_timestamp
    /\ current_timestamp <= grace_period_timestamp(rec)

in_grace_period(rec, current_timestamp) ==
    /\ rec.expiration_timestamp < current_timestamp
    /\ current_timestamp < grace_period_timestamp(rec)

get_status_code(rec, current_timestamp) ==
    IF in_grace_period(rec, current_timestamp) THEN "GRACE_PERIOD"
    ELSE IF is_expired(rec, current_timestamp) THEN "EXPIRED"
    ELSE "FOUND"

(* ------------------------------------------------------------------ *)
(* State                                                              *)
(* ------------------------------------------------------------------ *)
VARIABLES
    bundles,     \* the number of spend bundles the ledger has confirmed
    peak,        \* the last transaction block: [height, timestamp]
    markers,     \* the bag of coins at the identity puzzle hash of DomainName
    lineages,    \* launcher id -> the singleton lineage launched from it, or NoLineage
    pc,          \* position of the running NodeClient call
    op,          \* the NodeClient method that was called
    args,        \* its arguments
    results,     \* the list of ResolutionResults the call holds
    ret,         \* what the call returned or raised
    rpcLog,      \* the full node RPC calls the call has made, each with the method that made it
    sawUnsynced  \* TRUE once a get_blockchain_state of this call reported synced = false

\* the drivers and the WalletClient
VARIABLES
    tip,         \* the last spend of the domain singleton the ledger holds, or NoSpend
    inner,       \* the DomainInnerPuzzle object the last operation worked on
    wop,         \* the last driver or wallet operation and its arguments
    wret,        \* what it returned or raised
    effects      \* what it did, in order: RPCs, spends built, signatures, pushes

ledger == <<bundles, peak, markers, lineages>>
client == <<pc, op, args, results, ret, rpcLog, sawUnsynced>>
\* DomainMetadata and its dictionary form
VARIABLES
    meta,        \* the DomainMetadata at hand, or NoMetadata
    mdict,       \* what to_dict gave for it, or the dictionary a user gave
    mback        \* what from_dict gave for that dictionary

\* the API server
VARIABLES
    fifo_cache,    \* FIFODictCache: its dict and its key_time_list
    cleanup_task,  \* the cleanup task: running, failed by an exception, or cancelled
    next_sweep,    \* when cleanup's sleep ends
    now,           \* the clock
    pending,       \* the query waiting for the node's answer
    served,        \* the last response
    cache_calls    \* the cache methods the last step called

\* the functions of resolver/drivers/puzzle_class.py applied to given values
VARIABLES
    clvm_in,       \* the program given to program_to_list
    py_out,        \* what program_to_list returned for it
    spends_in,     \* the creating spends of the coin records of one name
    ids_out        \* what part 1 of discover_all_domains made of them

\* WalletClient.create_domain called by two wallets
VARIABLES
    wallet_calls,         \* per wallet: where its call stands, what its check saw, what it did
    mempool        \* the launcher ids of the registration bundles pushed and not yet in a block

driver == <<tip, inner, wop, wret, effects>>
server == <<fifo_cache, cleanup_task, next_sweep, now, pending, served, cache_calls>>
converted == <<meta, mdict, mback>>
puzzle_class == <<clvm_in, py_out, spends_in, ids_out>>
registrar == <<wallet_calls, mempool>>
\* what the resolver, the wallet, the metadata codec and the server all leave alone
apart == <<puzzle_class, registrar>>
\* what the resolver's operations leave alone
elsewhere == <<driver, converted, server, apart>>
vars == <<bundles, peak, markers, lineages, pc, op, args, results, ret, rpcLog, sawUnsynced,
          tip, inner, wop, wret, effects, meta, mdict, mback,
          fifo_cache, cleanup_task, next_sweep, now, pending, served, cache_calls,
          clvm_in, py_out, spends_in, ids_out, wallet_calls, mempool>>

\* the value of a launcher id nothing was launched from
NoLineage == [tag |-> "None"]

\* what a call has returned before it returns
NoReturn == [kind |-> "none"]
Raise(msg) == [kind |-> "raise", error |-> msg]
ReturnList(l) == [kind |-> "list", list |-> l]
ReturnResult(r) == [kind |-> "result", result |-> r]

(* ------------------------------------------------------------------ *)
(* Sequence helpers                                                   *)
(* ------------------------------------------------------------------ *)
Range(s) == {s[i] : i \in DOMAIN s}

\* the orders in which an RPC can return the members of S
Orderings(S) ==
    {f \in [1..Cardinality(S) -> S] : \A i, j \in 1..Cardinality(S) : f[i] = f[j] => i = j}

MaxOf(S) == CHOOSE m \in S : \A x \in S : x <= m

\* list.remove(x): the list without its first element equal to x
RECURSIVE list_remove(_, _)
list_remove(s, x) ==
    IF s = <<>> THEN <<>>
    ELSE IF Head(s) = x THEN Tail(s)
    ELSE <<Head(s)>> \o list_remove(Tail(s), x)

\* the members of a bag, each as often as the bag holds it, in a fixed order
RECURSIVE SeqOfBag(_)
SeqOfBag(b) ==
    IF DOMAIN b = {} THEN <<>>
    ELSE LET x == CHOOSE y \in DOMAIN b : TRUE
         IN  <<x>> \o SeqOfBag(b (-) SetToBag({x}))

\* bytes.hex(): two lowercase hex digits per byte, each digit given by its value
\* (the characters 0-9a-f are ordered as their values are)
RECURSIVE hex(_)
hex(bytes) ==
    IF bytes = <<>> THEN <<>>
    ELSE <<Head(bytes) \div 16, Head(bytes) % 16>> \o hex(Tail(bytes))

\* str < str: lexicographic order
RECURSIVE str_less(_, _)
str_less(a, b) ==
    IF b = <<>> THEN FALSE
    ELSE IF a = <<>> THEN TRUE
    ELSE IF Head(a) # Head(b) THEN Head(a) < Head(b)
    ELSE str_less(Tail(a), Tail(b))

\* list.sort(key=lambda x: x.domain_record.creation_height): a stable ascending sort
RECURSIVE insert_by_creation_height(_, _)
insert_by_creation_height(sorted, x) ==
    IF sorted = <<>> THEN <<x>>
    ELSE IF x.domain_record.creation_height < sorted[Len(sorted)].domain_record.creation_height
         THEN insert_by_creation_height(SubSeq(sorted, 1, Len(sorted) - 1), x)
              \o <<sorted[Len(sorted)]>>
    ELSE sorted \o <<x>>

RECURSIVE sort_by_creation_height(_)
sort_by_creation_height(s) ==
    IF s = <<>> THEN <<>>
    ELSE insert_by_creation_height(sort_by_creation_height(SubSeq(s, 1, Len(s) - 1)), s[Len(s)])

\* the list left in the order it has, no tie-break by launcher id: the variant C3 rules out
insert_unsorted(sorted, x) == sorted \o <<x>>

\* list.sort(key=lambda x: x.domain_record.launcher_id.hex()): a stable ascending sort
RECURSIVE insert_by_launcher_id(_, _)
insert_by_launcher_id(sorted, x) ==
    IF sorted = <<>> THEN <<x>>
    ELSE IF str_less(hex(x.domain_record.launcher_id),
                     hex(sorted[Len(sorted)].domain_record.launcher_id))
         THEN insert_by_launcher_id(SubSeq(sorted, 1, Len(sorted) - 1), x)
              \o <<sorted[Len(sorted)]>>
    ELSE sorted \o <<x>>

RECURSIVE sort_by_launcher_id(_)
sort_by_launcher_id(s) ==
    IF s = <<>> THEN <<>>
    ELSE insert_by_launcher_id(sort_by_launcher_id(SubSeq(s, 1, Len(s) - 1)), s[Len(s)])

(* ------------------------------------------------------------------ *)
(* What the full node answers (the RPCs NodeClient calls)             *)
(* ------------------------------------------------------------------ *)
\* a CoinSpend of a domain singleton, by what DomainOuterPuzzle.from_outer_coin_spend
\* decodes from it: the launcher id, the generation of the spent coin and the
\* effective public key and metadata
CoinSpend(launcher_id, generation, state) ==
    [launcher_id |-> launcher_id, generation |-> generation,
     pub_key |-> state.pub_key, metadata |-> state.metadata]

\* get_coin_records_by_puzzle_hash(domain_ph): every coin at the identity puzzle hash, in
\* one of the orders the node can return them in
get_coin_records_by_puzzle_hash ==
    LET all == SeqOfBag(markers)
    IN  {[i \in 1..Len(all) |-> all[order[i]]] : order \in Orderings(1..Len(all))}

\* get_coin_records_by_parent_ids(launcher ids): the first singleton of each launcher
\* that was spent, confirmed in the block of the launch
launcher_children(launcher_ids) ==
    {[parent_coin_info |-> l,
      confirmed_block_index |-> lineages[l].creation_height,
      timestamp |-> lineages[l].creation_timestamp] :
        l \in {k \in launcher_ids : lineages[k] # NoLineage}}

\* validate_initial_spend(p_spend) for the spend that created the coin record cr:
\* the memo of the fee puzzle's CREATE_COIN, None for any other spend
validate_initial_spend(cr) ==
    IF cr.parent_spend = "fee" THEN cr.memo ELSE NoLauncher

\* DomainRecord.from_coin_spend
DomainRecord_from_coin_spend(creation_height, creation_timestamp, registration_update_height, state_update_height, expiration_timestamp, spend) ==
    [tag |-> "DomainRecord",
     creation_height |-> creation_height,
     creation_timestamp |-> creation_timestamp,
     registration_update_height |-> registration_update_height,
     state_update_height |-> state_update_height,
     expiration_timestamp |-> expiration_timestamp,
     launcher_id |-> spend.launcher_id,
     pub_key |-> spend.pub_key,
     domain_metadata |-> spend.metadata,
     full_spend |-> spend]

(* ------------------------------------------------------------------ *)
(* NodeClient.discover_all_domains (resolver/core/client_funcs.py)    *)
(* ------------------------------------------------------------------ *)
\* the expiration counted from the last renewal instead of by the number of renewals: the
\* variant C26 rules out
_calculate_expiration_timestamp_from_last(creation_timestamp, renewal_timestamps) ==
    MaxOf(Range(renewal_timestamps)) + REGISTRATION_LENGTH

_calculate_expiration_timestamp(creation_timestamp, renewal_timestamps) ==
    creation_timestamp + ((Len(renewal_timestamps) - 1) * REGISTRATION_LENGTH)

\* Part 1: launcher_ids_heights_and_ts[l_id], the (height, timestamp) pairs of the
\* amount-1 coins whose creating spend names l_id; launcher_id is the Optional filter
launcher_id_record(all_coin_records, l_id, launcher_id) ==
    LET coin_records == SelectSeq(all_coin_records, LAMBDA cr : cr.amount = 1)
        mine == SelectSeq(coin_records,
                          LAMBDA cr : /\ validate_initial_spend(cr) # NoLauncher
                                      /\ validate_initial_spend(cr) = l_id
                                      /\ (launcher_id = NoLauncher \/ l_id = launcher_id))
    IN  [i \in 1..Len(mine) |-> <<mine[i].confirmed_block_index, mine[i].timestamp>>]

\* the keys of launcher_ids_heights_and_ts
launcher_id_keys(all_coin_records, launcher_id) ==
    {l \in LauncherIds : launcher_id_record(all_coin_records, l, launcher_id) # <<>>}

\* discover_accepts without the test of lines 141-143 against the markers' blocks: the
\* variant C21 rules out
discover_accepts_any_block(all_coin_records, first_domain_cr, launcher_id) ==
    lineages[first_domain_cr.parent_coin_info].first_spend = "ok"

\* Part 2, the test of one first singleton: it was launched in a block the markers name
\* and its spend in that block decodes
discover_accepts(all_coin_records, first_domain_cr, launcher_id) ==
    LET rec == launcher_id_record(all_coin_records, first_domain_cr.parent_coin_info, launcher_id)
    IN  /\ <<first_domain_cr.confirmed_block_index, first_domain_cr.timestamp>> \in Range(rec)
        /\ lineages[first_domain_cr.parent_coin_info].first_spend = "ok"

\* Part 2, the result built for one accepted first singleton
discover_result(all_coin_records, first_domain_cr, launcher_id, latest_timestamp) ==
    LET l_id == first_domain_cr.parent_coin_info
        rec == launcher_id_record(all_coin_records, l_id, launcher_id)
        creation_height == first_domain_cr.confirmed_block_index
        creation_timestamp == first_domain_cr.timestamp
        renewal_timestamps == [i \in 1..Len(rec) |-> rec[i][2]]
        renewal_heights == [i \in 1..Len(rec) |-> rec[i][1]]
        registration_update_height == MaxOf(Range(renewal_heights))
        exp_timestamp == _calculate_expiration_timestamp(creation_timestamp, renewal_timestamps)
        d_rec == DomainRecord_from_coin_spend(
                     creation_height, creation_timestamp, registration_update_height,
                     creation_height, exp_timestamp,
                     CoinSpend(l_id, 1, lineages[l_id].spends[1]))
    IN  ResolutionResult(DomainName, get_status_code(d_rec, latest_timestamp), d_rec)

\* the list discover_all_domains returns when the node returns the first singletons
\* in the order launcher_children_list
discover_all_domains(all_coin_records, launcher_id, launcher_children_list, latest_timestamp) ==
    LET accepted == SelectSeq(launcher_children_list,
                              LAMBDA cr : discover_accepts(all_coin_records, cr, launcher_id))
    IN  [i \in 1..Len(accepted) |->
            discover_result(all_coin_records, accepted[i], launcher_id, latest_timestamp)]

(* ------------------------------------------------------------------ *)
(* NodeClient.filter_domains                                          *)
(* ------------------------------------------------------------------ *)
\* the entries the status filter keeps
filtered_res_results(res_results, allow_grace_period) ==
    SelectSeq(res_results,
              LAMBDA r : \/ r.status_code = "FOUND"
                         \/ (allow_grace_period /\ r.status_code = "GRACE_PERIOD"))

\* filtered_res_results as the selection leaves it: sorted in place by creation height
\* when there are several
filtered_after_selection(res_results, allow_grace_period) ==
    LET filtered == filtered_res_results(res_results, allow_grace_period)
    IN  IF Len(filtered) > 1 THEN sort_by_creation_height(filtered) ELSE filtered

\* res_to_resolve taking the first entry the status filter keeps, in the order the list
\* has: the variant C25 rules out
res_to_resolve_first_kept(res_results, allow_grace_period) ==
    LET filtered == filtered_res_results(res_results, allow_grace_period)
        domain_name == IF Len(res_results) > 0 THEN res_results[1].domain_name ELSE ""
    IN  IF Len(filtered) = 0 THEN ResolutionResult(domain_name, "EXPIRED", NoRecord)
        ELSE filtered[1]

\* res_to_resolve
res_to_resolve(res_results, allow_grace_period) ==
    LET filtered == filtered_after_selection(res_results, allow_grace_period)
        domain_name == IF Len(res_results) > 0 THEN res_results[1].domain_name ELSE ""
    IN  IF Len(filtered) = 0 THEN ResolutionResult(domain_name, "EXPIRED", NoRecord)
        ELSE IF Len(filtered) = 1 THEN filtered[1]
        ELSE LET lowest_block_height == filtered[1].domain_record.creation_height
                 \* the loop stops at the first larger height of the sorted list
                 possible_records ==
                     SelectSeq(filtered,
                               LAMBDA r : r.domain_record.creation_height = lowest_block_height)
             IN  IF Len(possible_records) > 1
                 THEN sort_by_launcher_id(possible_records)[1]
                 ELSE possible_records[1]

\* filter_domains without the removal of the winner from the conflicting entries: the
\* variant C4 rules out
filter_domains_keeping_winner(res_results, allow_grace_period, return_conflicting) ==
    LET filtered == filtered_after_selection(res_results, allow_grace_period)
        chosen == res_to_resolve(res_results, allow_grace_period)
    IN  IF ~return_conflicting THEN ReturnList(<<chosen>>)
        ELSE ReturnList(<<chosen>> \o
                        [i \in 1..Len(filtered) |->
                            [filtered[i] EXCEPT !.status_code = "CONFLICTING"]])

\* what filter_domains returns or raises once get_peak_and_last_tx has answered
filter_domains(res_results, allow_grace_period, return_conflicting) ==
    LET filtered == filtered_after_selection(res_results, allow_grace_period)
        chosen == res_to_resolve(res_results, allow_grace_period)
        rest == list_remove(filtered, chosen)
    IN  IF ~return_conflicting THEN ReturnList(<<chosen>>)
        ELSE IF chosen \notin Range(filtered)
             THEN Raise("ValueError: list.remove(x): x not in list")
        ELSE ReturnList(<<chosen>> \o
                        [i \in 1..Len(rest) |-> [rest[i] EXCEPT !.status_code = "CONFLICTING"]])

(* ------------------------------------------------------------------ *)
(* NodeClient.get_latest_domain_state                                 *)
(* ------------------------------------------------------------------ *)
\* the coin of generation g of launcher l was spent
coin_spent(l, g) == g <= Len(lineages[l].spends)

\* the loop of lines 202-204 taking the first child and stopping there: the variant C23
\* rules out
follow_children_once(l, g) == g

\* the loop of lines 202-204: from the coin of generation g to its child while it is spent
RECURSIVE follow_children(_, _)
follow_children(l, g) == IF coin_spent(l, g) THEN follow_children(l, g + 1) ELSE g

\* the generation of the unspent coin the walk from the record's coin stops at: the walk
\* starts at the child of the record's coin
tip_generation(domain_record) ==
    follow_children(domain_record.launcher_id, domain_record.full_spend.generation + 1)

\* the RPCs of the walk: one get_coin_records_by_parent_ids per generation passed,
\* then the get_puzzle_and_solution of the spend that created the tip
get_latest_rpcs(domain_record) ==
    [i \in 1..(tip_generation(domain_record) - domain_record.full_spend.generation) |->
        <<"get_latest_domain_state", "get_coin_records_by_parent_ids">>]
    \o <<(<<"get_latest_domain_state", "get_puzzle_and_solution">>)>>

\* get_latest_domain_state answering LATEST whatever the status it is given: the variant
\* C11 rules out
get_latest_domain_state_always_latest(res_result) ==
    LET domain_record == res_result.domain_record
        l_id == domain_record.launcher_id
        final_generation == tip_generation(domain_record) - 1
        final_state == lineages[l_id].spends[final_generation]
    IN  ResolutionResult(
            res_result.domain_name, "LATEST",
            DomainRecord_from_coin_spend(
                domain_record.creation_height, domain_record.creation_timestamp,
                domain_record.registration_update_height, final_state.height,
                domain_record.expiration_timestamp,
                CoinSpend(l_id, final_generation, final_state)))

\* get_latest_domain_state taking the tip's height for registration_update_height too: the
\* variant C12 rules out
get_latest_domain_state_moving_registration(res_result) ==
    LET domain_record == res_result.domain_record
        l_id == domain_record.launcher_id
        final_generation == tip_generation(domain_record) - 1
        final_state == lineages[l_id].spends[final_generation]
    IN  ResolutionResult(
            res_result.domain_name,
            IF res_result.status_code = "FOUND" THEN "LATEST" ELSE res_result.status_code,
            DomainRecord_from_coin_spend(
                domain_record.creation_height, domain_record.creation_timestamp,
                final_state.height, final_state.height,
                domain_record.expiration_timestamp,
                CoinSpend(l_id, final_generation, final_state)))

\* get_latest_domain_state without the promotion of FOUND to LATEST: the variant C10
\* rules out
get_latest_domain_state_keeping_status(res_result) ==
    LET domain_record == res_result.domain_record
        l_id == domain_record.launcher_id
        final_generation == tip_generation(domain_record) - 1
        final_state == lineages[l_id].spends[final_generation]
    IN  ResolutionResult(
            res_result.domain_name, res_result.status_code,
            DomainRecord_from_coin_spend(
                domain_record.creation_height, domain_record.creation_timestamp,
                domain_record.registration_update_height, final_state.height,
                domain_record.expiration_timestamp,
                CoinSpend(l_id, final_generation, final_state)))

\* the result for a result that has a record, the node being synced
get_latest_domain_state(res_result) ==
    LET domain_record == res_result.domain_record
        l_id == domain_record.launcher_id
        final_generation == tip_generation(domain_record) - 1
        final_state == lineages[l_id].spends[final_generation]
        spend_height == final_state.height
        status_code == IF res_result.status_code = "FOUND" THEN "LATEST"
                       ELSE res_result.status_code
        final_domain_record ==
            DomainRecord_from_coin_spend(
                domain_record.creation_height, domain_record.creation_timestamp,
                domain_record.registration_update_height, spend_height,
                domain_record.expiration_timestamp,
                CoinSpend(l_id, final_generation, final_state))
    IN  ResolutionResult(res_result.domain_name, status_code, final_domain_record)

(* ------------------------------------------------------------------ *)
(* The ledger: blocks, launches, renewals, state updates              *)
(* ------------------------------------------------------------------ *)
\* an identity-puzzle coin confirmed in the last transaction block
MarkerCoin(memo, parent_spend, amount) ==
    [memo |-> memo, parent_spend |-> parent_spend, amount |-> amount,
     confirmed_block_index |-> peak.height, timestamp |-> peak.timestamp]

OwnerState(pub_key, metadata) ==
    [height |-> peak.height, pub_key |-> pub_key, metadata |-> metadata]

\* a transaction block is farmed
NewBlock ==
    /\ pc = "idle"
    /\ peak.height < BaseHeight + MaxBlocks
    /\ \E t \in TimePoints :
        /\ t > peak.timestamp
        /\ peak' = [height |-> peak.height + 1, timestamp |-> t]
    /\ UNCHANGED <<bundles, markers, lineages>>
    /\ UNCHANGED client
    /\ UNCHANGED elsewhere

\* WalletClient.create_domain / DomainOuterPuzzle.create_singleton_from_inner: the launcher
\* spend, the first singleton's renewal-mode spend and the fee spend land in one block
CreateDomainWithin(limit) ==
    /\ pc = "idle"
    /\ bundles < limit
    /\ bundles' = bundles + 1
    /\ \E l \in LauncherIds :
        /\ lineages[l] = NoLineage
        /\ markers' = markers (+) SetToBag({MarkerCoin(l, "fee", 1)})
        /\ lineages' = [lineages EXCEPT ![l] =
                            [creation_height |-> peak.height,
                             creation_timestamp |-> peak.timestamp,
                             first_spend |-> "ok",
                             spends |-> <<OwnerState("pk1", "m1")>>]]
    /\ UNCHANGED peak
    /\ UNCHANGED client
    /\ UNCHANGED elsewhere

CreateDomain == CreateDomainWithin(MaxBundles)

\* a singleton launched by someone else's tooling, with no fee spend: its first coin is
\* a domain singleton spent in the launch block ("ok"), is left unspent ("none") or holds
\* another inner puzzle ("invalid")
ForeignLaunch ==
    /\ pc = "idle"
    /\ bundles < MaxBundles
    /\ bundles' = bundles + 1
    /\ \E l \in LauncherIds, fs \in {"ok", "none", "invalid"} :
        /\ lineages[l] = NoLineage
        /\ lineages' = [lineages EXCEPT ![l] =
                            [creation_height |-> peak.height,
                             creation_timestamp |-> peak.timestamp,
                             first_spend |-> fs,
                             spends |-> IF fs = "none" THEN <<>>
                                        ELSE <<OwnerState("pk1", "m1")>>]]
    /\ UNCHANGED <<peak, markers>>
    /\ UNCHANGED client
    /\ UNCHANGED elsewhere

\* the lineage of l has a tip coin that can be spent in the last block
Spendable(l) ==
    /\ lineages[l] # NoLineage
    /\ lineages[l].first_spend = "ok"
    /\ lineages[l].spends[Len(lineages[l].spends)].height < peak.height

\* WalletClient.renew_domain / DomainOuterPuzzle.renew_domain: the tip is spent in renew
\* mode (the metadata replaced or kept) together with a fee spend
RenewDomainWithin(limit) ==
    /\ pc = "idle"
    /\ bundles < limit
    /\ bundles' = bundles + 1
    /\ \E l \in LauncherIds :
        /\ Spendable(l)
        /\ LET cur == lineages[l].spends[Len(lineages[l].spends)]
           IN  lineages' = [lineages EXCEPT ![l].spends =
                                Append(@, OwnerState(cur.pub_key, cur.metadata))]
        /\ markers' = markers (+) SetToBag({MarkerCoin(l, "fee", 1)})
    /\ UNCHANGED peak
    /\ UNCHANGED client
    /\ UNCHANGED elsewhere

RenewDomain == RenewDomainWithin(MaxBundles)

\* WalletClient.update_metadata / update_pubkey: the tip is spent in mode 0, no fee spend
UpdateStateWithin(limit) ==
    /\ pc = "idle"
    /\ bundles < limit
    /\ bundles' = bundles + 1
    /\ \E l \in LauncherIds, pk \in PubKeys :
        /\ Spendable(l)
        /\ lineages' = [lineages EXCEPT ![l].spends = Append(@, OwnerState(pk, "m2"))]
    /\ UNCHANGED <<peak, markers>>
    /\ UNCHANGED client
    /\ UNCHANGED elsewhere

UpdateState == UpdateStateWithin(MaxBundles)

\* the same bundles on a ledger followed for longer, with no resolver at work
LaterCreateDomain == CreateDomainWithin(MaxEvents)
LaterRenewDomain == RenewDomainWithin(MaxEvents)
LaterUpdateState == UpdateStateWithin(MaxEvents)

\* a coin sent to the identity puzzle hash by anything but a launch or a renewal: a fee
\* spend naming a launcher id with no singleton spend, a spend of another puzzle, or a
\* coin of another amount
StrayMarker ==
    /\ pc = "idle"
    /\ bundles < MaxBundles
    /\ bundles' = bundles + 1
    /\ \E kind \in {<<l, "fee", 1>> : l \in LauncherIds}
                     \cup {<<NoLauncher, "other", 1>>, <<NoLauncher, "other", 2>>} :
        markers' = markers (+) SetToBag({MarkerCoin(kind[1], kind[2], kind[3])})
    /\ UNCHANGED <<peak, lineages>>
    /\ UNCHANGED client
    /\ UNCHANGED elsewhere

(* ------------------------------------------------------------------ *)
(* NodeClient calls                                                   *)
(* ------------------------------------------------------------------ *)
Args(launcher_id, grace_period, return_conflicting, input) ==
    [launcher_id |-> launcher_id, grace_period |-> grace_period,
     return_conflicting |-> return_conflicting, input |-> input]

Rpc(method, rpc) == <<method, rpc>>

\* what a method did: what it returned or raised and the RPCs it made
Outcome(r, rpcs) == [ret |-> r, rpcs |-> rpcs]

\* get_peak_and_last_tx, given the node's answer to get_blockchain_state: the peak is
\* the last transaction block
get_peak_and_last_tx(synced) ==
    IF ~synced THEN Raise("Node is not synced.") ELSE ReturnResult(peak)

\* the RPCs of discover_all_domains after its two requests for the blockchain state
discover_rpcs(all_coin_records, launcher_id) ==
    LET coin_records == SelectSeq(all_coin_records, LAMBDA cr : cr.amount = 1)
        children == launcher_children(launcher_id_keys(all_coin_records, launcher_id))
        decoded == {cr \in children :
                      <<cr.confirmed_block_index, cr.timestamp>>
                          \in Range(launcher_id_record(all_coin_records, cr.parent_coin_info,
                                                       launcher_id))}
    IN  <<Rpc("discover_all_domains", "get_coin_records_by_puzzle_hash")>>
        \o [i \in 1..Len(coin_records) |-> Rpc("discover_all_domains", "get_puzzle_and_solution")]
        \o <<Rpc("discover_all_domains", "get_coin_records_by_parent_ids")>>
        \o [i \in 1..Cardinality(decoded) |-> Rpc("discover_all_domains", "get_puzzle_and_solution")]

\* discover_all_domains as called: the node answers get_blockchain_state at line 99 and
\* again inside get_peak_and_last_tx, and returns the first singletons in some order
discover_all_domains_call(all_coin_records, launcher_id, launcher_children_list, synced, synced_again) ==
    LET state_rpc == Rpc("discover_all_domains", "get_blockchain_state")
        last_tx == get_peak_and_last_tx(synced_again)
    IN  IF ~synced THEN Outcome(Raise("Node is not synced."), <<state_rpc>>)
        ELSE IF last_tx.kind = "raise" THEN Outcome(last_tx, <<state_rpc, state_rpc>>)
        ELSE Outcome(ReturnList(discover_all_domains(all_coin_records, launcher_id,
                                                     launcher_children_list,
                                                     last_tx.result.timestamp)),
                     <<state_rpc, state_rpc>> \o discover_rpcs(all_coin_records, launcher_id))

\* filter_domains as called
filter_domains_call(res_results, allow_grace_period, return_conflicting, synced) ==
    LET state_rpc == Rpc("filter_domains", "get_blockchain_state")
        last_tx == get_peak_and_last_tx(synced)
    IN  IF last_tx.kind = "raise" THEN Outcome(last_tx, <<state_rpc>>)
        ELSE Outcome(filter_domains(res_results, allow_grace_period, return_conflicting),
                     <<state_rpc>>)

\* get_latest_domain_state without its test of the sync status: the variant C9 rules out
get_latest_domain_state_call_unchecked(res_result, synced) ==
    LET state_rpc == Rpc("get_latest_domain_state", "get_blockchain_state")
    IN  IF res_result.domain_record = NoRecord THEN Outcome(ReturnResult(res_result), <<>>)
        ELSE Outcome(ReturnResult(get_latest_domain_state(res_result)),
                     <<state_rpc>> \o get_latest_rpcs(res_result.domain_record))

\* get_latest_domain_state as called
get_latest_domain_state_call(res_result, synced) ==
    LET state_rpc == Rpc("get_latest_domain_state", "get_blockchain_state")
    IN  IF res_result.domain_record = NoRecord THEN Outcome(ReturnResult(res_result), <<>>)
        ELSE IF ~synced THEN Outcome(Raise("Node is not synced."), <<state_rpc>>)
        ELSE Outcome(ReturnResult(get_latest_domain_state(res_result)),
                     <<state_rpc>> \o get_latest_rpcs(res_result.domain_record))

\* resolve_domain without the early return on an empty discovery: the variant C8 rules out
resolve_without_early_return(all_res_results, launcher_id) ==
    IF launcher_id = NoLauncher \/ Len(all_res_results) = 0
    THEN [pc |-> "filter", ret |-> NoReturn, results |-> all_res_results]
    ELSE [pc |-> "get_latest", ret |-> NoReturn, results |-> <<all_res_results[1]>>]

\* resolve_domain filtering whether or not a launcher id is given: the variant C24 rules
\* out
resolve_always_filtering(all_res_results, launcher_id) ==
    IF Len(all_res_results) = 0
    THEN [pc |-> "done",
          ret |-> ReturnResult(ResolutionResult(DomainName, "NOT_FOUND", NoRecord)),
          results |-> <<>>]
    ELSE [pc |-> "filter", ret |-> NoReturn, results |-> all_res_results]

\* resolve_domain, lines 331-338: what follows the discovery of all_res_results
resolve_after_discover(all_res_results, launcher_id) ==
    IF Len(all_res_results) = 0
    THEN [pc |-> "done",
          ret |-> ReturnResult(ResolutionResult(DomainName, "NOT_FOUND", NoRecord)),
          results |-> <<>>]
    ELSE IF launcher_id = NoLauncher
    THEN [pc |-> "filter", ret |-> NoReturn, results |-> all_res_results]
    ELSE [pc |-> "get_latest", ret |-> NoReturn, results |-> <<all_res_results[1]>>]

\* a get_blockchain_state among rpcs was answered "not synced"
AnsweredUnsynced(rpcs, answers) ==
    \E i \in 1..Len(rpcs) : rpcs[i][2] = "get_blockchain_state" /\ ~answers[i]

Start(method, a, first) ==
    /\ op' = method
    /\ args' = a
    /\ pc' = first
    /\ results' = <<>>
    /\ ret' = NoReturn
    /\ rpcLog' = <<>>
    /\ sawUnsynced' = FALSE
    /\ UNCHANGED ledger
    /\ UNCHANGED elsewhere

\* resolve_domain(domain_name, launcher_id, grace_period) is called
CallResolve ==
    /\ pc = "idle"
    /\ \E launcher_id \in LauncherIds \cup {NoLauncher}, grace_period \in BOOLEAN :
        Start("resolve_domain", Args(launcher_id, grace_period, FALSE, <<>>), "discover")

\* discover_all_domains(domain_name, launcher_ids) is called
CallDiscover ==
    /\ pc = "idle"
    /\ \E launcher_id \in LauncherIds \cup {NoLauncher} :
        Start("discover_all_domains", Args(launcher_id, FALSE, FALSE, <<>>), "discover")

\* filter_domains is called on the list discover_all_domains has just returned
CallFilter ==
    /\ pc = "done"
    /\ op = "discover_all_domains"
    /\ ret.kind = "list"
    /\ \E allow_grace_period \in BOOLEAN, return_conflicting \in BOOLEAN :
        Start("filter_domains",
              Args(NoLauncher, allow_grace_period, return_conflicting, ret.list), "filter")

\* get_latest_domain_state is called on a result discover_all_domains or filter_domains
\* has just returned
CallGetLatest ==
    /\ pc = "done"
    /\ op \in {"discover_all_domains", "filter_domains"}
    /\ ret.kind = "list"
    /\ \E res_result \in Range(ret.list) :
        Start("get_latest_domain_state", Args(NoLauncher, FALSE, FALSE, res_result),
              "get_latest")

\* the instants a status is asked for, relative to a record's expiration
StatusOffsets == {0, 1, GRACE_PERIOD - 1, GRACE_PERIOD, GRACE_PERIOD + 1}

\* DomainRecord.get_status_code(current_timestamp) is called on a record
\* discover_all_domains has just returned
CallGetStatusCode ==
    /\ pc = "done"
    /\ op = "discover_all_domains"
    /\ ret.kind = "list"
    /\ \E res_result \in Range(ret.list), d \in StatusOffsets :
        LET current_timestamp == res_result.domain_record.expiration_timestamp + d
        IN  /\ op' = "get_status_code"
            /\ args' = Args(NoLauncher, FALSE, FALSE,
                            [domain_record |-> res_result.domain_record,
                             current_timestamp |-> current_timestamp])
            /\ ret' = [kind |-> "status",
                       status_code |-> get_status_code(res_result.domain_record,
                                                       current_timestamp)]
    /\ UNCHANGED <<pc, results, rpcLog, sawUnsynced>>
    /\ UNCHANGED ledger
    /\ UNCHANGED elsewhere

\* discover_all_domains runs, and for resolve_domain its lines 331-338
Discover ==
    /\ pc = "discover"
    /\ \E synced \in BOOLEAN, synced_again \in BOOLEAN :
       \E all_coin_records \in get_coin_records_by_puzzle_hash :
       \E launcher_children_list \in
              Orderings(launcher_children(launcher_id_keys(all_coin_records,
                                                           args.launcher_id))) :
        LET out == discover_all_domains_call(all_coin_records, args.launcher_id,
                                             launcher_children_list,
                                             synced, synced_again)
            next == resolve_after_discover(out.ret.list, args.launcher_id)
        IN  /\ rpcLog' = rpcLog \o out.rpcs
            /\ sawUnsynced' = (sawUnsynced
                               \/ AnsweredUnsynced(out.rpcs, <<synced, synced_again>>))
            /\ IF out.ret.kind = "raise" \/ op = "discover_all_domains"
               THEN /\ ret' = out.ret
                    /\ pc' = "done"
                    /\ UNCHANGED results
               ELSE /\ ret' = next.ret
                    /\ pc' = next.pc
                    /\ results' = next.results
    /\ UNCHANGED <<op, args>>
    /\ UNCHANGED ledger
    /\ UNCHANGED elsewhere

\* filter_domains runs, and for resolve_domain the [0] of line 336
Filter ==
    /\ pc = "filter"
    /\ \E synced \in BOOLEAN :
        LET out == IF op = "resolve_domain"
                   THEN filter_domains_call(results, args.grace_period, FALSE, synced)
                   ELSE filter_domains_call(args.input, args.grace_period,
                                            args.return_conflicting, synced)
        IN  /\ rpcLog' = rpcLog \o out.rpcs
            /\ sawUnsynced' = (sawUnsynced \/ AnsweredUnsynced(out.rpcs, <<synced>>))
            /\ IF op = "resolve_domain" /\ out.ret.kind = "list"
               THEN /\ results' = <<out.ret.list[1]>>
                    /\ pc' = "get_latest"
                    /\ UNCHANGED ret
               ELSE /\ ret' = out.ret
                    /\ pc' = "done"
                    /\ UNCHANGED results
    /\ UNCHANGED <<op, args>>
    /\ UNCHANGED ledger
    /\ UNCHANGED elsewhere

\* get_latest_domain_state runs
GetLatest ==
    /\ pc = "get_latest"
    /\ \E synced \in BOOLEAN :
        LET out == get_latest_domain_state_call(
                       IF op = "resolve_domain" THEN results[1] ELSE args.input, synced)
        IN  /\ rpcLog' = rpcLog \o out.rpcs
            /\ sawUnsynced' = (sawUnsynced \/ AnsweredUnsynced(out.rpcs, <<synced>>))
            /\ ret' = out.ret
    /\ pc' = "done"
    /\ UNCHANGED <<op, args, results>>
    /\ UNCHANGED ledger
    /\ UNCHANGED elsewhere

\* the caller has its answer; the client is free for the next call
Return ==
    /\ pc = "done"
    /\ pc' = "idle"
    /\ op' = "none"
    /\ args' = Args(NoLauncher, FALSE, FALSE, <<>>)
    /\ results' = <<>>
    /\ ret' = NoReturn
    /\ rpcLog' = <<>>
    /\ sawUnsynced' = FALSE
    /\ UNCHANGED ledger
    /\ UNCHANGED elsewhere

(* ------------------------------------------------------------------ *)
(* The puzzle drivers: Python values, CLVM programs and the inner     *)
(* puzzle                                                             *)
(* ------------------------------------------------------------------ *)
\* Python values a driver handles: None, an int, a bool, a list, a G1Element, a bytes32
\* and a plain bytes; items holds the digits, the key, the id or the list's entries
None == [kind |-> "None", items |-> <<>>]
PyInt(n) == [kind |-> "int", items |-> <<n>>]
PyBool(b) == [kind |-> "bool", items |-> <<b>>]
PyList(l) == [kind |-> "list", items |-> l]
PyG1Element(k) == [kind |-> "G1Element", items |-> <<k>>]
PyBytes32(b) == [kind |-> "bytes32", items |-> <<b>>]
PyBytes(b) == [kind |-> "bytes", items |-> <<b>>]

\* Python's truth value of x
truthy(x) ==
    CASE x.kind = "None" -> FALSE
      [] x.kind = "int" -> x.items # <<"0">>
      [] x.kind = "bool" -> x.items = <<"True">>
      [] x.kind = "list" -> x.items # <<>>
      [] x.kind = "bytes" -> x.items # <<"">>
      [] OTHER -> TRUE

\* a CLVM program is an atom of some bytes or a list; the empty list is the empty atom
Atom(size, b) == [kind |-> "atom", size |-> size, items |-> <<b>>]
Nil == Atom(0, "")
ClvmList(l) == [kind |-> "list", size |-> Len(l), items |-> l]

\* the UTF-8 bytes of a metadata key, and the key of its bytes
MetadataKeys == {"m1", "m2"}
encode_utf8(k) == IF k = "m1" THEN "6d31" ELSE "6d32"
decode_utf8(b) == IF b = "6d31" THEN "m1" ELSE "m2"

\* Program.to of one Python value
Program_to(x) ==
    CASE x.kind = "int" -> IF x.items = <<"0">> THEN Nil ELSE Atom(1, "01")
      [] x.kind = "bool" -> IF x.items = <<"True">> THEN Atom(1, "01") ELSE Nil
      [] x.kind = "list" -> IF x.items = <<>> THEN Nil
                            ELSE ClvmList([i \in 1..Len(x.items) |-> encode_utf8(x.items[i])])
      [] x.kind = "G1Element" -> Atom(48, x.items[1])
      [] x.kind = "bytes32" -> Atom(32, x.items[1])
      [] OTHER -> Nil

\* program_to_list recursing into lists: the variant C27 rules out
RECURSIVE program_to_item_recursive(_)
program_to_item_recursive(p) ==
    IF p.kind = "atom"
    THEN CASE p.size = 32 -> PyBytes32(p.items[1])
           [] p.size = 48 -> PyG1Element(p.items[1])
           [] p.items = <<"01">> -> PyBool("True")
           [] p.items = <<"">> -> PyBool("False")
           [] OTHER -> PyBytes(p.items[1])
    ELSE PyList([i \in 1..Len(p.items) |-> program_to_item_recursive(p.items[i])])

\* program_to_list on one argument of a program
program_to_item(p) ==
    IF p.kind = "atom"
    THEN CASE p.size = 32 -> PyBytes32(p.items[1])
           [] p.size = 48 -> PyG1Element(p.items[1])
           [] p.items = <<"01">> -> PyBool("True")
           [] p.items = <<"">> -> PyBool("False")
           [] OTHER -> PyBytes(p.items[1])
    ELSE PyList(p.items)

program_to_list(program) == [i \in 1..Len(program) |-> program_to_item(program[i])]

decode_metadata_keys(metadata) ==
    PyList([i \in 1..Len(metadata.items) |-> decode_utf8(metadata.items[i])])

\* a DomainInnerPuzzle object
DomainInnerPuzzle(domain_name, cur_pub_key, cur_metadata) ==
    [domain_name |-> domain_name, cur_pub_key |-> cur_pub_key, cur_metadata |-> cur_metadata,
     solution_args |-> <<>>]

NoPuzzle == [domain_name |-> "", cur_pub_key |-> None, cur_metadata |-> None, solution_args |-> <<>>]

\* what a driver method gives: whether it raised and with what, the object as the method
\* left it, the spend it built and what it did
DriverOutcome(error, self, spend, done) ==
    [raised |-> error # "", error |-> error, self |-> self, spend |-> spend, effects |-> done]

NoSpend == [domain_name |-> "", curry_args |-> <<>>, solution |-> <<>>]

\* the coin a spend is built for
Coin(parent_coin_info, amount) == [parent_coin_info |-> PyBytes32(parent_coin_info), amount |-> amount]

\* generate_solution_args with the alternatives tried in another order
generate_solution_args_renew_first(self, coin, new_pubkey, new_metadata, renew) ==
    IF renew
    THEN DriverOutcome("", [self EXCEPT !.solution_args = <<coin.parent_coin_info, PyInt("1"), IF truthy(new_metadata) THEN new_metadata ELSE PyBool("False"), PyInt("0")>>], NoSpend, <<"generate_solution_args">>)
    ELSE IF new_pubkey # None
    THEN DriverOutcome("", [self EXCEPT !.solution_args = <<coin.parent_coin_info, PyInt("0"), IF new_metadata = None THEN self.cur_metadata ELSE new_metadata, new_pubkey>>], NoSpend, <<"generate_solution_args">>)
    ELSE IF new_metadata # None
    THEN DriverOutcome("", [self EXCEPT !.solution_args = <<coin.parent_coin_info, PyInt("0"), new_metadata, PyInt("0")>>], NoSpend, <<"generate_solution_args">>)
    ELSE DriverOutcome("ValueError: No arguments provided", self, NoSpend, <<"generate_solution_args">>)

generate_solution_args(self, coin, new_pubkey, new_metadata, renew) ==
    LET metadata == IF new_metadata = None THEN self.cur_metadata ELSE new_metadata
        sol_args ==
            IF new_pubkey # None
            THEN <<PyInt("0"), metadata, new_pubkey>>
            ELSE IF renew
            THEN <<PyInt("1"), IF truthy(new_metadata) THEN new_metadata ELSE PyBool("False"), PyInt("0")>>
            ELSE IF new_metadata # None
            THEN <<PyInt("0"), new_metadata, PyInt("0")>>
            ELSE <<>>
    IN  IF sol_args = <<>>
        THEN DriverOutcome("ValueError: No arguments provided", self, NoSpend, <<"generate_solution_args">>)
        ELSE DriverOutcome("", [self EXCEPT !.solution_args = <<coin.parent_coin_info>> \o sol_args],
                           NoSpend, <<"generate_solution_args">>)

is_spendable_puzzle(self) == Len(self.solution_args) = 4

\* BasePuzzle.generate_solution: Program.to of the solution arguments
generate_solution(self) == [i \in 1..Len(self.solution_args) |-> Program_to(self.solution_args[i])]

\* the inner coin spend inside the singleton's spend: the domain name curried into the
\* puzzle's module, the curried public key and metadata, and the inner solution
InnerCoinSpend(self) ==
    [domain_name |-> self.domain_name,
     curry_args |-> <<Atom(32, "puzzle_mod_hash"), Program_to(self.cur_pub_key), Program_to(self.cur_metadata)>>,
     solution |-> generate_solution(self)]

\* from_coin_spend taking the owner state from the curried arguments alone
from_coin_spend_curried_only(coin_spend) ==
    LET curry_args == program_to_list(coin_spend.curry_args)
    IN  DomainInnerPuzzle(coin_spend.domain_name, curry_args[2], decode_metadata_keys(curry_args[3]))

\* DomainInnerPuzzle.from_coin_spend
from_coin_spend(coin_spend) ==
    LET solution_args == program_to_list(coin_spend.solution)
        curry_args == program_to_list(coin_spend.curry_args)
        existing_pub_key == curry_args[2]
        existing_metadata == curry_args[3]
        sol_metadata == solution_args[3]
        sol_pub_key == solution_args[4]
        pub_key == IF truthy(sol_pub_key) THEN sol_pub_key ELSE existing_pub_key
        clvm_metadata == IF truthy(sol_metadata) THEN sol_metadata ELSE existing_metadata
    IN  DomainInnerPuzzle(coin_spend.domain_name, pub_key, decode_metadata_keys(clvm_metadata))

(* ------------------------------------------------------------------ *)
(* The outer driver and the WalletClient                              *)
(* ------------------------------------------------------------------ *)
\* an amount of mojos, a uint64, in two limbs: giga * 10^9 + units
Giga == 1000000000
Mojos(giga, units) == [giga |-> giga, units |-> units]
mojos_add(a, b) ==
    Mojos(a.giga + b.giga + ((a.units + b.units) \div Giga), (a.units + b.units) % Giga)
mojos_ge(a, b) == a.giga > b.giga \/ (a.giga = b.giga /\ a.units >= b.units)
mojos_gt(a, b) == a.giga > b.giga \/ (a.giga = b.giga /\ a.units > b.units)

SINGLETON_AMOUNT == Mojos(0, 1)
REGISTRATION_FEE_AMOUNT == Mojos(10, 0)
TOTAL_FEE_AMOUNT == mojos_add(REGISTRATION_FEE_AMOUNT, SINGLETON_AMOUNT)
TOTAL_NEW_DOMAIN_AMOUNT == mojos_add(TOTAL_FEE_AMOUNT, SINGLETON_AMOUNT)

PrivateKeys == {"sk1", "sk2"}
\* PrivateKey.get_g1
get_g1(private_key) == PyG1Element(IF private_key = "sk1" THEN "pk1" ELSE "pk2")

G1Elements == {PyG1Element(k) : k \in PubKeys}
\* raw metadata: the lists of keys, the empty one among them
RawMetadatas == {PyList(<<>>), PyList(<<"m1">>), PyList(<<"m1", "m2">>)}
BaseCoinAmounts == {Mojos(0, 0), Mojos(9, 999999999), Mojos(10, 1), Mojos(10, 2), Mojos(10, 3), Mojos(11, 0)}
Fees == {Mojos(0, 0), Mojos(0, 1)}

\* to_spend_bundle signing with whatever key it is given
to_spend_bundle_unchecked(self, private_key, coin) ==
    DriverOutcome("", self, InnerCoinSpend(self), <<"to_coin_spend", "sign_coin_spend">>)

\* DomainOuterPuzzle.to_spend_bundle, on the outer puzzle whose domain_puzzle is self
to_spend_bundle(self, private_key, coin) ==
    IF get_g1(private_key) # self.cur_pub_key
    THEN DriverOutcome("ValueError: Private key does not match public key", self, NoSpend, <<>>)
    ELSE DriverOutcome("", self, InnerCoinSpend(self), <<"to_coin_spend", "sign_coin_spend">>)

\* a driver operation: the solution arguments, then the signed spend, then what follows
then_spend_bundle(args_outcome, private_key, coin, rest) ==
    LET sb == to_spend_bundle(args_outcome.self, private_key, coin)
    IN  IF args_outcome.raised THEN args_outcome
        ELSE IF sb.raised
        THEN DriverOutcome(sb.error, sb.self, NoSpend, args_outcome.effects \o sb.effects)
        ELSE DriverOutcome("", sb.self, sb.spend, args_outcome.effects \o sb.effects \o rest)

\* DomainOuterPuzzle.renew_domain
renew_domain(self, private_key, domain_singleton, new_metadata) ==
    then_spend_bundle(generate_solution_args(self, domain_singleton, None, new_metadata, TRUE),
                      private_key, domain_singleton, <<"fee_to_spend_bundle">>)

\* DomainOuterPuzzle.update_metadata
update_metadata(self, private_key, domain_singleton, new_metadata) ==
    then_spend_bundle(generate_solution_args(self, domain_singleton, None, new_metadata, FALSE),
                      private_key, domain_singleton, <<>>)

\* DomainOuterPuzzle.update_pubkey
update_pubkey(self, private_key, domain_singleton, new_metadata, new_pubkey) ==
    then_spend_bundle(generate_solution_args(self, domain_singleton, new_pubkey, new_metadata, FALSE),
                      private_key, domain_singleton, <<>>)

\* create_singleton_from_inner asking for more than the threshold
create_singleton_from_inner_strict(private_key, inner_puzzle, base_coin) ==
    IF ~mojos_gt(base_coin.amount, Mojos(10, 2))
    THEN DriverOutcome("ValueError: Base coin must be at least 1000000002 mojo's", inner_puzzle, NoSpend, <<>>)
    ELSE LET g == generate_solution_args(inner_puzzle, Coin("launcher", Mojos(0, 1)), None, None, TRUE)
         IN  DriverOutcome("", g.self, InnerCoinSpend(g.self), <<"launch_conditions_and_coinsol">> \o g.effects \o <<"sign_coin_spend", "fee_to_spend_bundle">>)

\* DomainOuterPuzzle.create_singleton_from_inner
create_singleton_from_inner(private_key, inner_puzzle, base_coin) ==
    IF ~mojos_ge(base_coin.amount, Mojos(10, 2))
    THEN DriverOutcome("ValueError: Base coin must be at least 1000000002 mojo's", inner_puzzle, NoSpend, <<>>)
    ELSE LET g == generate_solution_args(inner_puzzle, Coin("launcher", Mojos(0, 1)), None, None, TRUE)
         IN  DriverOutcome("", g.self, InnerCoinSpend(g.self), <<"launch_conditions_and_coinsol">> \o g.effects \o <<"sign_coin_spend", "fee_to_spend_bundle">>)

\* the operation a wallet or driver call is, with its arguments and the object it found
WalletOp(name, private_key, new_pubkey, new_metadata, renew, amount, fee, before) ==
    [name |-> name, private_key |-> private_key, new_pubkey |-> new_pubkey,
     new_metadata |-> new_metadata, renew |-> renew, amount |-> amount, fee |-> fee,
     before |-> before]

NoWalletOp == WalletOp("none", "", None, None, FALSE, Mojos(0, 0), Mojos(0, 0), NoPuzzle)

WalletReturn(kind, error, spend) == [kind |-> kind, error |-> error, spend |-> spend]
NoWalletReturn == WalletReturn("none", "", NoSpend)

\* the coin the domain singleton is now
latest_coin == Coin("parent", SINGLETON_AMOUNT)

\* the wallet's part after the driver's: the fee transaction when there is one, the push
wallet_finish(outcome, with_tx) ==
    IF outcome.raised THEN outcome.effects
    ELSE outcome.effects \o (IF with_tx THEN <<"create_signed_transaction">> ELSE <<>>) \o <<"push_tx">>

\* a wallet operation on the domain's record: resolve_domain, the driver, the push
WalletCall(name, private_key, new_pubkey, new_metadata, fee, before, outcome, first, with_tx) ==
    /\ wop' = WalletOp(name, private_key, new_pubkey, new_metadata, name = "renew_domain", Mojos(0, 0), fee, before)
    /\ inner' = outcome.self
    /\ effects' = first \o wallet_finish(outcome, with_tx)
    /\ wret' = IF outcome.raised THEN WalletReturn("raise", outcome.error, NoSpend)
               ELSE WalletReturn("return", "", outcome.spend)
    /\ tip' = IF outcome.raised THEN tip ELSE outcome.spend
    /\ UNCHANGED <<ledger, client, apart, converted, server>>

\* a wallet operation that finds no record for the name
WalletFindsNothing(name, private_key, new_pubkey, new_metadata, fee) ==
    /\ wop' = WalletOp(name, private_key, new_pubkey, new_metadata, name = "renew_domain", Mojos(0, 0), fee, NoPuzzle)
    /\ effects' = <<"resolve_domain">>
    /\ wret' = WalletReturn("return", "", NoSpend)
    /\ UNCHANGED <<tip, inner, ledger, client, apart, converted, server>>

\* a DomainInnerPuzzle is constructed
NewInnerPuzzle ==
    /\ \E pub_key \in G1Elements, metadata \in RawMetadatas \ {PyList(<<>>)} :
         /\ inner' = DomainInnerPuzzle(DomainName, pub_key, metadata)
         /\ wop' = WalletOp("DomainInnerPuzzle", "", pub_key, metadata, FALSE, Mojos(0, 0), Mojos(0, 0), NoPuzzle)
    /\ effects' = <<>>
    /\ wret' = WalletReturn("return", "", NoSpend)
    /\ UNCHANGED <<tip, ledger, client, apart, converted, server>>

\* DomainInnerPuzzle.generate_solution_args called on the object at hand
GenerateSolutionArgs ==
    /\ inner # NoPuzzle
    /\ \E new_pubkey \in G1Elements \cup {None}, new_metadata \in RawMetadatas \cup {None}, renew \in BOOLEAN :
         LET outcome == generate_solution_args(inner, latest_coin, new_pubkey, new_metadata, renew)
         IN  /\ wop' = WalletOp("generate_solution_args", "", new_pubkey, new_metadata, renew, Mojos(0, 0), Mojos(0, 0), inner)
             /\ inner' = outcome.self
             /\ effects' = outcome.effects
             /\ wret' = IF outcome.raised THEN WalletReturn("raise", outcome.error, NoSpend)
                        ELSE WalletReturn("return", "", NoSpend)
    /\ UNCHANGED <<tip, ledger, client, apart, converted, server>>

\* DomainOuterPuzzle.create_singleton_from_inner called with a base coin of any amount
CreateSingletonFromInner ==
    /\ \E private_key \in PrivateKeys, pub_key \in G1Elements, metadata \in RawMetadatas \ {PyList(<<>>)}, amount \in BaseCoinAmounts :
         LET inner_puzzle == DomainInnerPuzzle(DomainName, pub_key, metadata)
             outcome == create_singleton_from_inner(private_key, inner_puzzle, Coin("base", amount))
         IN  /\ wop' = WalletOp("create_singleton_from_inner", private_key, pub_key, metadata, TRUE, amount, Mojos(0, 0), inner_puzzle)
             /\ inner' = outcome.self
             /\ effects' = outcome.effects
             /\ wret' = IF outcome.raised THEN WalletReturn("raise", outcome.error, NoSpend)
                        ELSE WalletReturn("return", "", outcome.spend)
    /\ UNCHANGED <<tip, ledger, client, apart, converted, server>>

\* WalletClient.create_domain: the wallet selects one coin that covers the fee and the
\* new domain, and the launch is pushed
WalletCreateDomain ==
    /\ tip = NoSpend
    /\ \E pub_key \in G1Elements, metadata \in RawMetadatas \ {PyList(<<>>)}, fee \in Fees, surplus \in Fees :
         LET inner_puzzle == DomainInnerPuzzle(DomainName, pub_key, metadata)
             total_amount == mojos_add(fee, TOTAL_NEW_DOMAIN_AMOUNT)
             outcome == create_singleton_from_inner("sk1", inner_puzzle, Coin("base", mojos_add(total_amount, surplus)))
         IN  /\ wop' = WalletOp("create_domain", "sk1", pub_key, metadata, TRUE, mojos_add(total_amount, surplus), fee, inner_puzzle)
             /\ inner' = outcome.self
             /\ effects' = <<"select_coins">> \o wallet_finish(outcome, TRUE)
             /\ wret' = IF outcome.raised THEN WalletReturn("raise", outcome.error, NoSpend)
                        ELSE WalletReturn("return", "", outcome.spend)
             /\ tip' = IF outcome.raised THEN tip ELSE outcome.spend
    /\ UNCHANGED <<ledger, client, apart, converted, server>>

\* WalletClient.renew_domain
WalletRenewDomain ==
    \E private_key \in PrivateKeys, new_metadata \in RawMetadatas \cup {None}, fee \in Fees :
        IF tip = NoSpend
        THEN WalletFindsNothing("renew_domain", private_key, None, new_metadata, fee)
        ELSE LET outer_class == from_coin_spend(tip)
             IN  WalletCall("renew_domain", private_key, None, new_metadata, fee, outer_class,
                            renew_domain(outer_class, private_key, latest_coin, new_metadata),
                            <<"resolve_domain", "select_coins">>, TRUE)

\* WalletClient.update_metadata
WalletUpdateMetadata ==
    \E private_key \in PrivateKeys, new_metadata \in RawMetadatas, fee \in Fees :
        IF tip = NoSpend
        THEN WalletFindsNothing("update_metadata", private_key, None, new_metadata, fee)
        ELSE LET outer_class == from_coin_spend(tip)
             IN  WalletCall("update_metadata", private_key, None, new_metadata, fee, outer_class,
                            update_metadata(outer_class, private_key, latest_coin, new_metadata),
                            <<"resolve_domain">>, mojos_gt(fee, Mojos(0, 0)))

\* WalletClient.update_pubkey
WalletUpdatePubkey ==
    \E private_key \in PrivateKeys, new_metadata \in RawMetadatas, new_pubkey \in G1Elements, fee \in Fees :
        IF tip = NoSpend
        THEN WalletFindsNothing("update_pubkey", private_key, new_pubkey, new_metadata, fee)
        ELSE LET outer_class == from_coin_spend(tip)
             IN  WalletCall("update_pubkey", private_key, new_pubkey, new_metadata, fee, outer_class,
                            update_pubkey(outer_class, private_key, latest_coin, new_metadata, new_pubkey),
                            <<"resolve_domain">>, mojos_gt(fee, Mojos(0, 0)))

(* ------------------------------------------------------------------ *)
(* DomainMetadata and its dictionary form                             *)
(* ------------------------------------------------------------------ *)
METADATA_FORMAT_VERSION == "v1.0.0"

\* a chain record key is a str, here the sequence of its characters
ChainKeys == {<<"x", "c", "h">>, <<"N", "F", "T">>, <<"d", "i", "d">>, <<"b", "t", "c">>, <<"x", "c", "h", "-", "n", "f", "t", "-", "D", "I", "D">>}
PuzzleHashes == {"ph1", "ph2"}

\* str.lower, on the letters the keys are written with
lower_char(c) ==
    CASE c = "N" -> "n" [] c = "F" -> "f" [] c = "T" -> "t" [] c = "D" -> "d" [] c = "I" -> "i"
      [] OTHER -> c

lower(k) == [i \in 1..Len(k) |-> lower_char(k[i])]

\* Python's `part in k` on strs
contains(k, part) ==
    \E i \in 0..(Len(k) - Len(part)) : \A j \in 1..Len(part) : k[i + j] = part[j]

\* bech32m: an address is a prefix and the puzzle hash it encodes; decoding drops the prefix
encode_puzzle_hash(puzzle_hash, prefix) == [prefix |-> prefix, data |-> puzzle_hash]
decode_puzzle_hash(address) == address.data

EmptyDict == <<>>

DomainMetadata(metadata_version, primary_address, chain_records) ==
    [metadata_version |-> metadata_version, primary_address |-> primary_address,
     chain_records |-> chain_records, dns_records |-> EmptyDict, other_data |-> EmptyDict]

NoMetadata == DomainMetadata("", "", EmptyDict)

DomainMetadataDict(metadata_version, primary_address, chain_records) ==
    [metadata_version |-> metadata_version, primary_address |-> primary_address,
     chain_records |-> chain_records, dns_records |-> EmptyDict, other_data |-> EmptyDict]

NoDict == DomainMetadataDict("", encode_puzzle_hash("", ""), EmptyDict)

\* what to_dict and from_dict give: a value, or the error raised
Converted(error, dict, metadata) ==
    [raised |-> error # "", error |-> error, dict |-> dict, metadata |-> metadata]

NotConverted == Converted("", NoDict, NoMetadata)

InvalidKey == "ValueError: Invalid chain record key, the key must contain xch, nft or did"

\* the prefix to_dict encodes the address of key k with, "" when it raises
chain_prefix(k) ==
    IF contains(lower(k), <<"x", "c", "h">>) THEN "xch"
    ELSE IF contains(lower(k), <<"n", "f", "t">>) THEN "nft"
    ELSE IF contains(lower(k), <<"d", "i", "d">>) THEN "did:chia:"
    ELSE ""

\* DomainMetadata.to_dict
to_dict(self) ==
    IF \E k \in DOMAIN self.chain_records : chain_prefix(k) = ""
    THEN Converted(InvalidKey, NoDict, NoMetadata)
    ELSE Converted("",
                   DomainMetadataDict(METADATA_FORMAT_VERSION,
                                      encode_puzzle_hash(self.primary_address, "xch"),
                                      [k \in DOMAIN self.chain_records |->
                                          encode_puzzle_hash(self.chain_records[k], chain_prefix(k))]),
                   NoMetadata)

\* the test from_dict makes on a chain record key: true when it raises
from_dict_rejects(k) ==
    \/ ~contains(lower(k), <<"x", "c", "h">>)
    \/ ~contains(lower(k), <<"n", "f", "t">>)
    \/ ~contains(lower(k), <<"d", "i", "d">>)

\* DomainMetadata.from_dict
from_dict(meta_dict) ==
    IF meta_dict.metadata_version # METADATA_FORMAT_VERSION
    THEN Converted("ValueError: Unknown metadata version", NoDict, NoMetadata)
    ELSE IF \E k \in DOMAIN meta_dict.chain_records : from_dict_rejects(k)
    THEN Converted(InvalidKey, NoDict, NoMetadata)
    ELSE Converted("", NoDict,
                   DomainMetadata(meta_dict.metadata_version,
                                  decode_puzzle_hash(meta_dict.primary_address),
                                  [k \in DOMAIN meta_dict.chain_records |->
                                      decode_puzzle_hash(meta_dict.chain_records[k])]))

\* a DomainMetadata is made, for instance by from_raw
NewMetadata ==
    /\ \E primary_address \in PuzzleHashes, keys \in SUBSET ChainKeys :
         meta' = DomainMetadata(METADATA_FORMAT_VERSION, primary_address, [k \in keys |-> "ph1"])
    /\ mdict' = NotConverted
    /\ mback' = NotConverted
    /\ UNCHANGED <<ledger, client, apart, driver, server>>

\* a dictionary comes from a file the user wrote
GivenDict ==
    /\ \E version \in {METADATA_FORMAT_VERSION, "v0.9.0"}, primary_address \in PuzzleHashes, keys \in SUBSET ChainKeys :
         mdict' = Converted("", DomainMetadataDict(version, encode_puzzle_hash(primary_address, "xch"),
                                                   [k \in keys |-> encode_puzzle_hash("ph2", "xch")]),
                            NoMetadata)
    /\ meta' = NoMetadata
    /\ mback' = NotConverted
    /\ UNCHANGED <<ledger, client, apart, driver, server>>

ToDict ==
    /\ meta # NoMetadata
    /\ mdict = NotConverted
    /\ mdict' = to_dict(meta)
    /\ UNCHANGED <<meta, mback, ledger, client, apart, driver, server>>

FromDict ==
    /\ mdict # NotConverted
    /\ ~mdict.raised
    /\ mback = NotConverted
    /\ mback' = from_dict(mdict.dict)
    /\ UNCHANGED <<meta, mdict, ledger, client, apart, driver, server>>

(* ------------------------------------------------------------------ *)
(* The API server and its resolve cache                               *)
(* ------------------------------------------------------------------ *)
\* seconds an entry may stay, and seconds cleanup sleeps between two sweeps
CacheLifetime == 300
CleanupSleep == 300

\* the clock moves in steps of TickSeconds up to MaxTime; the cache holds MaxSize
\* entries and its key_time_list is followed up to MaxListed items
TickSeconds == 300
MaxTime == 900
MaxSize == 2
MaxListed == 3

QueryNames == {"", "a.xch", "b.xch", "c.xch"}
\* the launcher_id of a query: absent, 32 bytes of hex, or something else
QueryLauncherIds == {"None", "aa", "zz"}
NodeAnswers == {"LATEST", "raise"}

\* the dictionary the server answers with: the resolution and, for the record, the
\* time it was resolved at
Answer(result, resolved_at) == [result |-> result, resolved_at |-> resolved_at]
NoAnswer == Answer("None", 0)

\* OrderedDict: its items in insertion order
dict_has(d, key) == \E i \in 1..Len(d) : d[i].key = key

dict_get(d, key) ==
    IF dict_has(d, key) THEN (CHOOSE e \in Range(d) : e.key = key).value ELSE NoAnswer

dict_pop(d, key) == SelectSeq(d, LAMBDA e : e.key # key)

dict_set(d, key, value) ==
    IF dict_has(d, key)
    THEN [i \in 1..Len(d) |-> IF d[i].key = key THEN [key |-> key, value |-> value] ELSE d[i]]
    ELSE Append(d, [key |-> key, value |-> value])

\* __setitem__ making room whether or not the key is present: the variant C28 rules out
FIFODictCache_setitem_making_room(cache, key, value, t) ==
    LET room == IF Len(cache.dict) >= MaxSize THEN Tail(cache.dict) ELSE cache.dict
    IN  [dict |-> dict_set(room, key, value),
         key_time_list |-> Append(cache.key_time_list, [key |-> key, time |-> t])]

\* FIFODictCache.__setitem__ at time t
FIFODictCache_setitem(cache, key, value, t) ==
    LET room == IF ~dict_has(cache.dict, key) /\ Len(cache.dict) >= MaxSize
                THEN Tail(cache.dict) ELSE cache.dict
    IN  [dict |-> dict_set(room, key, value),
         key_time_list |-> Append(cache.key_time_list, [key |-> key, time |-> t])]

\* one sweep of FIFODictCache.cleanup at time t, from the i-th item of the list on: the
\* for loop steps to the next index of the list as the body left it, and dict.pop of a
\* key the dict does not hold raises KeyError out of the task
RECURSIVE cleanup_sweep(_, _, _)
cleanup_sweep(cache, i, t) ==
    IF i > Len(cache.key_time_list) THEN [cache |-> cache, failed |-> FALSE]
    ELSE LET item == cache.key_time_list[i]
         IN  IF t - item.time > CacheLifetime
             THEN IF ~dict_has(cache.dict, item.key)
                  THEN [cache |-> cache, failed |-> TRUE]
                  ELSE cleanup_sweep([dict |-> dict_pop(cache.dict, item.key),
                                      key_time_list |-> list_remove(cache.key_time_list, item)],
                                     i + 1, t)
             ELSE cleanup_sweep(cache, i + 1, t)

\* whether the handler looks into the cache, and whether it stores what it resolved
bypasses_cache(launcher_id_hex) == launcher_id_hex # "None"

caches_result_always(launcher_id_hex) == TRUE

caches_result(launcher_id_hex) == launcher_id_hex = "None"

Response(status, body, request, from_cache) ==
    [status |-> status, body |-> body, request |-> request, from_cache |-> from_cache]

Request(domain_name, launcher_id_hex) == [domain_name |-> domain_name, launcher_id_hex |-> launcher_id_hex]
NoRequest == Request("", "None")
NoResponse == Response(0, NoAnswer, NoRequest, FALSE)

\* the handler answers without resolving
Respond(status, body, request, from_cache, calls) ==
    /\ served' = Response(status, body, request, from_cache)
    /\ cache_calls' = calls
    /\ UNCHANGED <<fifo_cache, pending, now, cleanup_task, next_sweep>>

\* ApiServer.resolve_domain up to its await: a query arrives
ReceiveQuery ==
    /\ cleanup_task # "cancelled"
    /\ pending = NoRequest
    /\ \E domain_name \in QueryNames, launcher_id_hex \in QueryLauncherIds :
         LET request == Request(domain_name, launcher_id_hex)
             cache_result == dict_get(fifo_cache.dict, domain_name)
         IN  IF domain_name = ""
             THEN Respond(400, NoAnswer, request, FALSE, <<>>)
             ELSE IF bypasses_cache(launcher_id_hex) /\ launcher_id_hex # "aa"
             THEN Respond(400, NoAnswer, request, FALSE, <<>>)
             ELSE IF ~bypasses_cache(launcher_id_hex) /\ cache_result # NoAnswer
             THEN Respond(200, cache_result, request, TRUE, <<"get">>)
             ELSE /\ pending' = request
                  /\ cache_calls' = IF bypasses_cache(launcher_id_hex) THEN <<>> ELSE <<"get">>
                  /\ UNCHANGED <<fifo_cache, served, now, cleanup_task, next_sweep>>
    /\ UNCHANGED <<ledger, client, apart, driver, converted>>

\* ApiServer.resolve_domain from its await on: the node's answer to a query has come
FinishQuery ==
    /\ cleanup_task # "cancelled"
    /\ pending # NoRequest
    /\ \E result \in NodeAnswers :
         LET request == pending
             res_result == Answer(result, now)
             stores == result # "raise" /\ caches_result(request.launcher_id_hex)
         IN  /\ stores => Len(fifo_cache.key_time_list) < MaxListed
             /\ pending' = NoRequest
             /\ fifo_cache' = IF stores
                              THEN FIFODictCache_setitem(fifo_cache, request.domain_name, res_result, now)
                              ELSE fifo_cache
             /\ cache_calls' = IF stores THEN <<"set">> ELSE <<>>
             /\ served' = IF result = "raise" THEN Response(500, NoAnswer, request, FALSE)
                          ELSE Response(200, res_result, request, FALSE)
    /\ UNCHANGED <<now, cleanup_task, next_sweep>>
    /\ UNCHANGED <<ledger, client, apart, driver, converted>>

\* FIFODictCache.__setitem__ called with any key, as two queries for one name that both
\* missed the cache make the handler do
SetItem ==
    /\ cleanup_task # "cancelled"
    /\ pending = NoRequest
    /\ Len(fifo_cache.key_time_list) < MaxListed
    /\ \E key \in QueryNames \ {""}, result \in NodeAnswers \ {"raise"} :
         fifo_cache' = FIFODictCache_setitem(fifo_cache, key, Answer(result, now), now)
    /\ cache_calls' = <<"set">>
    /\ UNCHANGED <<pending, served, now, cleanup_task, next_sweep>>
    /\ UNCHANGED <<ledger, client, apart, driver, converted>>

\* the cleanup task wakes and sweeps, then sleeps again; a KeyError ends the task
Cleanup ==
    /\ cleanup_task = "running"
    /\ now >= next_sweep
    /\ LET swept == cleanup_sweep(fifo_cache, 1, now)
       IN  /\ fifo_cache' = swept.cache
           /\ cleanup_task' = IF swept.failed THEN "failed" ELSE "running"
           /\ next_sweep' = now + CleanupSleep
    /\ cache_calls' = <<"cleanup">>
    /\ UNCHANGED <<pending, served, now>>
    /\ UNCHANGED <<ledger, client, apart, driver, converted>>

\* time passes; a sweep that is due runs first
Tick ==
    /\ cleanup_task # "cancelled"
    /\ ~(cleanup_task = "running" /\ now >= next_sweep)
    /\ now + TickSeconds <= MaxTime
    /\ now' = now + TickSeconds
    /\ cache_calls' = <<>>
    /\ UNCHANGED <<fifo_cache, pending, served, cleanup_task, next_sweep>>
    /\ UNCHANGED <<ledger, client, apart, driver, converted>>

\* ApiServer.stop: FIFODictCache.stop cancels the cleanup task
StopServer ==
    /\ cleanup_task = "running"
    /\ cleanup_task' = "cancelled"
    /\ cache_calls' = <<>>
    /\ UNCHANGED <<fifo_cache, pending, served, now, next_sweep>>
    /\ UNCHANGED <<ledger, client, apart, driver, converted>>

(* ------------------------------------------------------------------ *)
(* Specification                                                      *)
(* ------------------------------------------------------------------ *)
(* ------------------------------------------------------------------ *)
(* resolver/drivers/puzzle_class.py on given values                   *)
(* ------------------------------------------------------------------ *)
MaxArgs == 2
MaxCoins == 2

\* the arguments a program can hold: atoms of 32, 48, 1, 0 and 2 bytes, and lists of them
ClvmAtoms == {Atom(32, "aa"), Atom(48, "pk"), Atom(1, "01"), Nil, Atom(2, "6d31")}
ClvmValues ==
    ClvmAtoms \cup {ClvmList(<<Atom(32, "aa"), Atom(1, "01")>>),
                    ClvmList(<<Atom(48, "pk"), Nil, Atom(2, "6d31")>>),
                    ClvmList(<<ClvmList(<<Atom(1, "01")>>)>>)}

SeqsUpTo(S, n) == UNION {[1..k -> S] : k \in 1..n}

\* a condition of a spend's output as validate_initial_spend reads it: its opcode, the
\* number of its elements and its fourth element
Condition(opcode, length, memos) == [opcode |-> opcode, length |-> length, memos |-> memos]

\* the CoinSpend that created a coin, or None
CreatingSpend(puzzle_hash, conditions) ==
    [present |-> TRUE, puzzle_hash |-> puzzle_hash, conditions |-> conditions]
NoCoinSpend == [present |-> FALSE, puzzle_hash |-> "", conditions |-> <<>>]

Returns(value) == [kind |-> "return", value |-> value]

\* bytes32(x): a SizedBytes of any other length than 32 is refused
bytes32(x) ==
    IF x.kind = "atom" /\ x.size = 32 THEN Returns(PyBytes32(x.items[1]))
    ELSE Raise("ValueError: bad bytes32 initializer")

\* the loop of validate_initial_spend over the conditions
RECURSIVE first_memo(_)
first_memo(conditions) ==
    IF conditions = <<>> THEN Returns(None)
    ELSE LET condition == Head(conditions)
         IN  IF condition.opcode = "CREATE_COIN" /\ condition.length >= 4
             THEN IF condition.memos.kind # "list" THEN first_memo(Tail(conditions))
                  ELSE bytes32(condition.memos.items[1])
             ELSE first_memo(Tail(conditions))

\* validate_initial_spend on the spend itself
validate_initial_spend_of(coin_spend) ==
    IF coin_spend.present /\ coin_spend.puzzle_hash = "REGISTRATION_FEE_MOD_HASH"
    THEN first_memo(coin_spend.conditions)
    ELSE Returns(None)

\* part 1 of discover_all_domains with no launcher_ids given: the launcher ids of the
\* coins whose creating spends are p_spends, in the coins' order
RECURSIVE launcher_ids_of(_)
launcher_ids_of(p_spends) ==
    IF p_spends = <<>> THEN ReturnList(<<>>)
    ELSE LET l_id == validate_initial_spend_of(Head(p_spends))
             rest == launcher_ids_of(Tail(p_spends))
         IN  IF l_id.kind = "raise" THEN l_id
             ELSE IF rest.kind = "raise" THEN rest
             ELSE IF l_id.value = None THEN rest
             ELSE ReturnList(<<l_id.value>> \o rest.list)

\* the creating spends a coin at the identity puzzle hash can have
FeeCoin == Condition("CREATE_COIN", 3, Nil)
Marker(memos) == Condition("CREATE_COIN", 4, memos)
CreatingSpends ==
    {NoCoinSpend,
     CreatingSpend("other", <<Marker(ClvmList(<<Atom(32, "aa")>>))>>),
     CreatingSpend("REGISTRATION_FEE_MOD_HASH", <<FeeCoin>>),
     CreatingSpend("REGISTRATION_FEE_MOD_HASH", <<Marker(Atom(32, "aa"))>>),
     CreatingSpend("REGISTRATION_FEE_MOD_HASH", <<FeeCoin, Marker(ClvmList(<<Atom(32, "aa")>>))>>),
     CreatingSpend("REGISTRATION_FEE_MOD_HASH",
                   <<Condition("ASSERT_COIN_ANNOUNCEMENT", 2, Nil),
                     Marker(ClvmList(<<Atom(32, "bb")>>))>>),
     CreatingSpend("REGISTRATION_FEE_MOD_HASH", <<Marker(ClvmList(<<Atom(31, "cc")>>))>>)}

\* a program is given to program_to_list; one function is looked at at a time
GivenProgram ==
    /\ spends_in = <<>>
    /\ \E program \in SeqsUpTo(ClvmValues, MaxArgs) : clvm_in' = program
    /\ py_out' = NoReturn
    /\ UNCHANGED <<spends_in, ids_out>>
    /\ UNCHANGED <<ledger, client, driver, converted, server, registrar>>

ProgramToList ==
    /\ clvm_in # <<>>
    /\ py_out = NoReturn
    /\ py_out' = ReturnList(program_to_list(clvm_in))
    /\ UNCHANGED <<clvm_in, spends_in, ids_out>>
    /\ UNCHANGED <<ledger, client, driver, converted, server, registrar>>

\* the node has the coin records of a name, each with its creating spend
GivenSpends ==
    /\ clvm_in = <<>>
    /\ \E p_spends \in SeqsUpTo(CreatingSpends, MaxCoins) : spends_in' = p_spends
    /\ ids_out' = NoReturn
    /\ UNCHANGED <<clvm_in, py_out>>
    /\ UNCHANGED <<ledger, client, driver, converted, server, registrar>>

RecoverLauncherIds ==
    /\ spends_in # <<>>
    /\ ids_out = NoReturn
    /\ ids_out' = launcher_ids_of(spends_in)
    /\ UNCHANGED <<clvm_in, py_out, spends_in>>
    /\ UNCHANGED <<ledger, client, driver, converted, server, registrar>>

(* ------------------------------------------------------------------ *)
(* WalletClient.create_domain called by two wallets for one name      *)
(* ------------------------------------------------------------------ *)
Wallets == {"w1", "w2"}
\* number of coins select_coins returns at most
MaxSelected == 2

\* the launcher id of the singleton a wallet's selected coin launches
LauncherOf(w) == IF w = "w1" THEN <<170>> ELSE <<187>>

\* a create_domain call not yet made
NotCalled == [pc |-> "idle", final_record |-> NoReturn, effects |-> <<>>,
              pushed_over |-> "", ret |-> NoReturn]

\* what create_domain returns after push_tx
TxAndBundle == [kind |-> "tuple", items |-> <<"tx", "final_sb">>]

\* the ledger holds a lineage of the name that discover_all_domains finds unexpired at
\* the last block
unexpired_lineage ==
    LET all_coin_records == CHOOSE a \in get_coin_records_by_puzzle_hash : TRUE
        children == launcher_children(launcher_id_keys(all_coin_records, NoLauncher))
        found == discover_all_domains(all_coin_records, NoLauncher,
                                      CHOOSE o \in Orderings(children) : TRUE, peak.timestamp)
    IN  \E i \in DOMAIN found : found[i].status_code = "FOUND"

\* line 437: the check found the name taken
existing_check(final_record) == final_record[1].domain_record # NoRecord

\* lines 433-438: discover_all_domains and filter_domains, and the return of None when
\* the name is taken
CheckExisting(w) ==
    /\ wallet_calls[w].pc = "idle"
    /\ \E synced \in BOOLEAN, synced_again \in BOOLEAN, synced_filter \in BOOLEAN :
       \E all_coin_records \in get_coin_records_by_puzzle_hash :
       \E launcher_children_list \in
              Orderings(launcher_children(launcher_id_keys(all_coin_records, NoLauncher))) :
        LET all_res_records == discover_all_domains_call(all_coin_records, NoLauncher,
                                                         launcher_children_list,
                                                         synced, synced_again).ret
            final_record == IF all_res_records.kind = "raise" THEN all_res_records
                            ELSE filter_domains_call(all_res_records.list, FALSE, FALSE,
                                                     synced_filter).ret
        IN  wallet_calls' = [wallet_calls EXCEPT ![w] =
                IF final_record.kind = "raise"
                THEN [@ EXCEPT !.pc = "done", !.final_record = final_record,
                               !.ret = final_record]
                ELSE IF existing_check(final_record.list)
                THEN [@ EXCEPT !.pc = "done", !.final_record = final_record,
                               !.ret = Returns(None)]
                ELSE [@ EXCEPT !.pc = "select_coins", !.final_record = final_record]]
    /\ UNCHANGED mempool
    /\ UNCHANGED <<ledger, client, driver, converted, server, puzzle_class>>

\* lines 441-447: the wallet selects coins for the fee and the new domain
SelectCoins(w) ==
    /\ wallet_calls[w].pc = "select_coins"
    /\ \E selected \in 1..MaxSelected :
        wallet_calls' = [wallet_calls EXCEPT ![w] =
            IF selected > 1
            THEN [@ EXCEPT !.pc = "done", !.effects = Append(@, "select_coins"),
                           !.ret = Raise("ValueError: Too many coins selected, please condense the coins in your wallet.")]
            ELSE [@ EXCEPT !.pc = "push_tx", !.effects = Append(@, "select_coins")]]
    /\ UNCHANGED mempool
    /\ UNCHANGED <<ledger, client, driver, converted, server, puzzle_class>>

\* lines 448-475: the launch and the fee transaction are built, aggregated and pushed;
\* pushed_over keeps what the ledger held for the name at that moment
PushTx(w) ==
    /\ wallet_calls[w].pc = "push_tx"
    /\ wallet_calls' = [wallet_calls EXCEPT ![w] =
                    [@ EXCEPT !.pc = "done", !.effects = Append(@, "push_tx"),
                              !.pushed_over = IF unexpired_lineage THEN "taken" ELSE "free",
                              !.ret = Returns(TxAndBundle)]]
    /\ mempool' = mempool \cup {LauncherOf(w)}
    /\ UNCHANGED <<ledger, client, driver, converted, server, puzzle_class>>

\* a pushed registration bundle is included in the last block: the launcher spend, the
\* first singleton's spend and the fee spend, as in CreateDomainWithin
IncludeBundle(w) ==
    /\ LauncherOf(w) \in mempool
    /\ lineages[LauncherOf(w)] = NoLineage
    /\ bundles < MaxEvents
    /\ bundles' = bundles + 1
    /\ mempool' = mempool \ {LauncherOf(w)}
    /\ markers' = markers (+) SetToBag({MarkerCoin(LauncherOf(w), "fee", 1)})
    /\ lineages' = [lineages EXCEPT ![LauncherOf(w)] =
                        [creation_height |-> peak.height,
                         creation_timestamp |-> peak.timestamp,
                         first_spend |-> "ok",
                         spends |-> <<OwnerState("pk1", "m1")>>]]
    /\ UNCHANGED <<peak, wallet_calls>>
    /\ UNCHANGED <<client, driver, converted, server, puzzle_class>>

Init ==
    /\ bundles = 0
    /\ peak = [height |-> BaseHeight, timestamp |-> T0]
    /\ markers = EmptyBag
    /\ lineages = [l \in LauncherIds |-> NoLineage]
    /\ pc = "idle"
    /\ op = "none"
    /\ args = Args(NoLauncher, FALSE, FALSE, <<>>)
    /\ results = <<>>
    /\ ret = NoReturn
    /\ rpcLog = <<>>
    /\ sawUnsynced = FALSE
    /\ tip = NoSpend
    /\ inner = NoPuzzle
    /\ wop = NoWalletOp
    /\ wret = NoWalletReturn
    /\ effects = <<>>
    /\ meta = NoMetadata
    /\ mdict = NotConverted
    /\ mback = NotConverted
    /\ fifo_cache = [dict |-> <<>>, key_time_list |-> <<>>]
    /\ cleanup_task = "running"
    /\ next_sweep = 0
    /\ now = 0
    /\ pending = NoRequest
    /\ served = NoResponse
    /\ cache_calls = <<>>
    /\ clvm_in = <<>>
    /\ py_out = NoReturn
    /\ spends_in = <<>>
    /\ ids_out = NoReturn
    /\ wallet_calls = [w \in Wallets |-> NotCalled]
    /\ mempool = {}

Next ==
    \/ NewBlock
    \/ CreateDomain
    \/ ForeignLaunch
    \/ RenewDomain
    \/ UpdateState
    \/ StrayMarker
    \/ CallResolve
    \/ CallDiscover
    \/ CallFilter
    \/ CallGetLatest
    \/ CallGetStatusCode
    \/ Discover
    \/ Filter
    \/ GetLatest
    \/ Return

Spec == Init /\ [][Next]_vars

\* the inner puzzle driver on one object
InnerNext ==
    \/ NewInnerPuzzle
    \/ GenerateSolutionArgs

InnerSpec == Init /\ [][InnerNext]_vars

\* the outer driver and the wallet on one domain
DriverNext ==
    \/ CreateSingletonFromInner
    \/ WalletCreateDomain
    \/ WalletRenewDomain
    \/ WalletUpdateMetadata
    \/ WalletUpdatePubkey

DriverSpec == Init /\ [][DriverNext]_vars

\* DomainMetadata to its dictionary and back
MetadataNext ==
    \/ NewMetadata
    \/ GivenDict
    \/ ToDict
    \/ FromDict

MetadataSpec == Init /\ [][MetadataNext]_vars

\* the API server, its cache and the clock
ServerNext ==
    \/ ReceiveQuery
    \/ FinishQuery
    \/ Cleanup
    \/ Tick
    \/ StopServer

ServerSpec == Init /\ [][ServerNext]_vars

\* the ledger alone, over more bundles than the resolver is followed for
LedgerNext ==
    \/ NewBlock
    \/ LaterCreateDomain
    \/ LaterRenewDomain
    \/ LaterUpdateState

LedgerSpec == Init /\ [][LedgerNext]_vars

\* the cache alone: writes, sweeps and the clock
CacheNext ==
    \/ SetItem
    \/ Cleanup
    \/ Tick

CacheSpec == Init /\ [][CacheNext]_vars

\* the functions of puzzle_class.py alone
PuzzleClassNext ==
    \/ GivenProgram
    \/ ProgramToList
    \/ GivenSpends
    \/ RecoverLauncherIds

PuzzleClassSpec == Init /\ [][PuzzleClassNext]_vars

\* two wallets calling create_domain for the name while blocks are farmed
CreateDomainNext ==
    \/ NewBlock
    \/ \E w \in Wallets : CheckExisting(w)
    \/ \E w \in Wallets : SelectCoins(w)
    \/ \E w \in Wallets : PushTx(w)
    \/ \E w \in Wallets : IncludeBundle(w)

CreateDomainSpec == Init /\ [][CreateDomainNext]_vars

(* ------------------------------------------------------------------ *)
(* Properties                                                         *)
(* ------------------------------------------------------------------ *)
\* the method that has just returned or raised
Returned(method) == pc = "done" /\ op = method

\* the identity coins of amount 1 whose creating fee spend names launcher id l, and
\* their number: the renewal events of l
RenewalCoins(l) ==
    {m \in DOMAIN markers : m.amount = 1 /\ m.parent_spend = "fee" /\ m.memo = l}

RenewalEvents(l) == BagCardinality([m \in RenewalCoins(l) |-> markers[m]])

\* two renewal events of l that follow each other lie more than MAX_REGISTRATION_GAP apart
HasRegistrationGap(l) ==
    LET ts == {m.timestamp : m \in RenewalCoins(l)}
    IN  \E a, b \in ts : /\ a < b
                         /\ b - a > MAX_REGISTRATION_GAP
                         /\ ~\E c \in ts : a < c /\ c < b

\* the entries of a list the status filter of filter_domains lets through
IsSurvivor(r, allow_grace_period) ==
    \/ r.status_code = "FOUND"
    \/ (allow_grace_period /\ r.status_code = "GRACE_PERIOD")

Survivors(res_results, allow_grace_period) ==
    {r \in Range(res_results) : IsSurvivor(r, allow_grace_period)}

SurvivorCount(res_results, allow_grace_period) ==
    Cardinality({i \in DOMAIN res_results : IsSurvivor(res_results[i], allow_grace_period)})

\* text a comes before text b
TextBefore(a, b) ==
    \E i \in 1..Len(b) :
        /\ \A j \in 1..(i - 1) : j <= Len(a) /\ a[j] = b[j]
        /\ (i > Len(a) \/ a[i] < b[i])

\* result a was launched before result b, or in the same block under a launcher id whose
\* hex text comes first
Precedes(a, b) ==
    \/ a.domain_record.creation_height < b.domain_record.creation_height
    \/ /\ a.domain_record.creation_height = b.domain_record.creation_height
       /\ TextBefore(hex(a.domain_record.launcher_id), hex(b.domain_record.launcher_id))

\* C1: every result of discover_all_domains for a lineage observed with k renewal events
\* (k >= 1 identity coins grouped under its launcher id) has expiration_timestamp equal to
\* creation_timestamp + k * REGISTRATION_LENGTH.
C1_ExpirationCountsEveryRenewal ==
    (Returned("discover_all_domains") /\ ret.kind = "list") =>
        \A i \in 1..Len(ret.list) :
            LET rec == ret.list[i].domain_record
                k == RenewalEvents(rec.launcher_id)
            IN  k >= 1 =>
                    rec.expiration_timestamp = rec.creation_timestamp + k * REGISTRATION_LENGTH

\* C2: get_status_code(t) of a record with expiration exp is FOUND iff t <= exp,
\* GRACE_PERIOD iff exp < t < exp + GRACE_PERIOD and EXPIRED iff t >= exp + GRACE_PERIOD;
\* in_grace_period is false at t = exp and at t = exp + GRACE_PERIOD and true at exp + 1.
\* The same holds of the status discover_all_domains gives a record at the peak's timestamp.
C2_StatusCodeBoundaries ==
    /\ Returned("get_status_code") =>
        LET t == args.input.current_timestamp
            rec == args.input.domain_record
            exp == rec.expiration_timestamp
        IN  /\ (ret.status_code = "FOUND") <=> (t <= exp)
            /\ (ret.status_code = "GRACE_PERIOD") <=> (exp < t /\ t < exp + GRACE_PERIOD)
            /\ (ret.status_code = "EXPIRED") <=> (t >= exp + GRACE_PERIOD)
            /\ ~in_grace_period(rec, exp)
            /\ ~in_grace_period(rec, exp + GRACE_PERIOD)
            /\ in_grace_period(rec, exp + 1)
    /\ (Returned("discover_all_domains") /\ ret.kind = "list") =>
        \A i \in 1..Len(ret.list) :
            LET t == peak.timestamp
                exp == ret.list[i].domain_record.expiration_timestamp
                status == ret.list[i].status_code
            IN  /\ (status = "FOUND") <=> (t <= exp)
                /\ (status = "GRACE_PERIOD") <=> (exp < t /\ t < exp + GRACE_PERIOD)
                /\ (status = "EXPIRED") <=> (t >= exp + GRACE_PERIOD)

\* C2, reached: a status asked for at exactly exp + GRACE_PERIOD is EXPIRED
C2_Witness ==
    /\ Returned("get_status_code")
    /\ args.input.current_timestamp
          = args.input.domain_record.expiration_timestamp + GRACE_PERIOD
    /\ ret.status_code = "EXPIRED"

\* C3: among the survivors of the status filter, filter_domains puts first the one with the
\* smallest creation_height, and among several of that height the one whose launcher id
\* has the smallest hex text; the choice is the same for every order of the input list.
C3_FilterSelectsEarliestThenSmallestId ==
    (/\ Returned("filter_domains")
     /\ ret.kind = "list"
     /\ Survivors(args.input, args.grace_period) # {}) =>
        LET winner == ret.list[1]
        IN  /\ winner \in Survivors(args.input, args.grace_period)
            /\ \A s \in Survivors(args.input, args.grace_period) \ {winner} :
                   Precedes(winner, s)
            /\ \A reordered \in Orderings(Range(args.input)) :
                   LET again == filter_domains(reordered, args.grace_period,
                                               args.return_conflicting)
                   IN  again.kind = "list" /\ again.list[1] = winner

\* C3, reached: of two lineages launched in one block, 0xBB listed first, 0xAA is selected
C3_Witness ==
    /\ Returned("filter_domains")
    /\ ret.kind = "list"
    /\ Len(args.input) = 2
    /\ Survivors(args.input, args.grace_period) = Range(args.input)
    /\ args.input[1].domain_record.launcher_id = <<187>>
    /\ args.input[2].domain_record.launcher_id = <<170>>
    /\ args.input[1].domain_record.creation_height
          = args.input[2].domain_record.creation_height
    /\ ret.list[1].domain_record.launcher_id = <<170>>

\* C4: with return_conflicting and at least one survivor, filter_domains returns the winner
\* first and then every other survivor exactly once, with the status CONFLICTING and its
\* record unchanged; the list is as long as there are survivors.
C4_ConflictingListsEverySurvivorOnce ==
    (/\ Returned("filter_domains")
     /\ ~sawUnsynced
     /\ args.return_conflicting
     /\ Survivors(args.input, args.grace_period) # {}) =>
        /\ ret.kind = "list"
        /\ Len(ret.list) = SurvivorCount(args.input, args.grace_period)
        /\ ret.list[1] \in Survivors(args.input, args.grace_period)
        /\ \A i \in 2..Len(ret.list) :
               /\ ret.list[i].status_code = "CONFLICTING"
               /\ \E s \in Survivors(args.input, args.grace_period) \ {ret.list[1]} :
                      ret.list[i].domain_record = s.domain_record
        /\ \A s \in Survivors(args.input, args.grace_period) \ {ret.list[1]} :
               Cardinality({i \in 2..Len(ret.list) :
                               ret.list[i].domain_record = s.domain_record}) = 1

\* C4, reached: two survivors, the second returned as CONFLICTING
C4_Witness ==
    /\ Returned("filter_domains")
    /\ args.return_conflicting
    /\ SurvivorCount(args.input, args.grace_period) = 2
    /\ ret.kind = "list"
    /\ Len(ret.list) = 2
    /\ ret.list[2].status_code = "CONFLICTING"

\* C5: when no entry survives the status filter (the empty input included), filter_domains
\* returns exactly one result, EXPIRED with no record, whatever allow_grace_period and
\* return_conflicting are, and does not raise.
C5_NoSurvivorYieldsOneExpired ==
    (/\ Returned("filter_domains")
     /\ ~sawUnsynced
     /\ Survivors(args.input, args.grace_period) = {}) =>
        /\ ret.kind = "list"
        /\ Len(ret.list) = 1
        /\ ret.list[1].status_code = "EXPIRED"
        /\ ret.list[1].domain_record = NoRecord

\* C6: a lineage two of whose successive renewal events lie more than
\* REGISTRATION_LENGTH + GRACE_PERIOD apart is in no list discover_all_domains returns.
C6_GappedLineageNeverDiscovered ==
    (Returned("discover_all_domains") /\ ret.kind = "list") =>
        \A i \in 1..Len(ret.list) :
            ~HasRegistrationGap(ret.list[i].domain_record.launcher_id)

\* the ledger of C7: one lineage l, registered in the first block at T0 and renewed once,
\* in the block of height h, at T0 + REGISTRATION_LENGTH - 1000; the peak is at
\* T0 + REGISTRATION_LENGTH - 500
RenewedBeforeExpiry(l, h) ==
    /\ \A o \in LauncherIds \ {l} : lineages[o] = NoLineage
    /\ lineages[l] # NoLineage
    /\ lineages[l].first_spend = "ok"
    /\ lineages[l].creation_height = BaseHeight
    /\ lineages[l].creation_timestamp = T0
    /\ markers = SetToBag({
           [memo |-> l, parent_spend |-> "fee", amount |-> 1,
            confirmed_block_index |-> BaseHeight, timestamp |-> T0],
           [memo |-> l, parent_spend |-> "fee", amount |-> 1,
            confirmed_block_index |-> h,
            timestamp |-> T0 + REGISTRATION_LENGTH - 1000]})
    /\ peak.timestamp = T0 + REGISTRATION_LENGTH - 500

\* C7: a name registered at T0 and renewed once at T0 + REGISTRATION_LENGTH - 1000, resolved
\* at T0 + REGISTRATION_LENGTH - 500, resolves as LATEST with registration_update_height the
\* renewal's height and expiration_timestamp = T0 + 2 * REGISTRATION_LENGTH.
C7_RenewedBeforeExpiryResolvesLatest ==
    \A l \in LauncherIds, h \in BaseHeight..(BaseHeight + MaxBlocks) :
        (/\ Returned("resolve_domain")
         /\ ret.kind = "result"
         /\ args.launcher_id \in {NoLauncher, l}
         /\ RenewedBeforeExpiry(l, h)) =>
            /\ ret.result.status_code = "LATEST"
            /\ ret.result.domain_record # NoRecord
            /\ ret.result.domain_record.registration_update_height = h
            /\ ret.result.domain_record.expiration_timestamp = T0 + 2 * REGISTRATION_LENGTH

\* discovery finds no candidate lineage for the running call
NoCandidate ==
    \A all_coin_records \in get_coin_records_by_puzzle_hash :
    \A launcher_children_list \in
           Orderings(launcher_children(launcher_id_keys(all_coin_records,
                                                        args.launcher_id))) :
        discover_all_domains(all_coin_records, args.launcher_id, launcher_children_list,
                             peak.timestamp) = <<>>

\* C8: when discovery finds no candidate lineage, resolve_domain returns NOT_FOUND with no
\* record at once: filter_domains and get_latest_domain_state do not run and no RPC is
\* made that is not discover_all_domains'.
C8_NoCandidateIsNotFoundAtOnce ==
    (op = "resolve_domain" /\ NoCandidate) =>
        /\ pc \notin {"filter", "get_latest"}
        /\ \A i \in 1..Len(rpcLog) : rpcLog[i][1] = "discover_all_domains"
        /\ (pc = "done" /\ ret.kind = "result") =>
               /\ ret.result.status_code = "NOT_FOUND"
               /\ ret.result.domain_record = NoRecord

\* C8, reached: identity coins exist but none belongs to a candidate; NOT_FOUND is returned
\* after the discovery queries
C8_Witness ==
    /\ Returned("resolve_domain")
    /\ NoCandidate
    /\ markers # EmptyBag
    /\ ret.kind = "result"
    /\ ret.result.status_code = "NOT_FOUND"
    /\ Len(rpcLog) > 2

\* C9: once the node has answered a get_blockchain_state of discover_all_domains, of
\* get_latest_domain_state (given a result with a record) or of resolve_domain with
\* "not synced", the call is over and has raised an error; it has returned no result.
C9_UnsyncedNodeIsAnError ==
    (/\ op \in {"discover_all_domains", "get_latest_domain_state", "resolve_domain"}
     /\ sawUnsynced) =>
        /\ pc = "done"
        /\ ret.kind = "raise"

\* C9, reached: resolve_domain fails on the sync test of get_latest_domain_state
C9_Witness ==
    /\ Returned("resolve_domain")
    /\ sawUnsynced
    /\ ret.kind = "raise"
    /\ \E i \in 1..Len(rpcLog) : rpcLog[i][1] = "get_latest_domain_state"

\* C10: the status of a result of resolve_domain is NOT_FOUND, EXPIRED, GRACE_PERIOD or
\* LATEST; never FOUND, CONFLICTING or INVALID.
C10_ResolveStatusCodes ==
    (Returned("resolve_domain") /\ ret.kind = "result") =>
        ret.result.status_code \in {"NOT_FOUND", "EXPIRED", "GRACE_PERIOD", "LATEST"}

\* C10, reached: a live lineage resolves as LATEST
C10_Witness ==
    /\ Returned("resolve_domain")
    /\ ret.kind = "result"
    /\ ret.result.status_code = "LATEST"
    /\ ret.result.domain_record # NoRecord

\* the result get_latest_domain_state is or was given by the running call
GetLatestInput == IF op = "resolve_domain" THEN results[1] ELSE args.input

\* C11: get_latest_domain_state returns a result without a record unchanged and makes no
\* RPC for it; of a result with a record it turns the status FOUND into LATEST, returns
\* every other status unchanged, and keeps the domain name.
C11_GetLatestStatusMapping ==
    /\ (Returned("get_latest_domain_state") /\ args.input.domain_record = NoRecord) =>
           /\ ret = ReturnResult(args.input)
           /\ rpcLog = <<>>
    /\ (/\ pc = "done"
        /\ ret.kind = "result"
        /\ \/ op = "get_latest_domain_state"
           \/ (op = "resolve_domain" /\ results # <<>>)
        /\ GetLatestInput.domain_record # NoRecord) =>
           /\ ret.result.domain_record # NoRecord
           /\ ret.result.domain_name = GetLatestInput.domain_name
           /\ ret.result.status_code =
                  IF GetLatestInput.status_code = "FOUND" THEN "LATEST"
                  ELSE GetLatestInput.status_code

\* C11, reached: the EXPIRED result without a record that filter_domains returns comes
\* back as it is, no RPC made
C11_Witness ==
    /\ Returned("get_latest_domain_state")
    /\ args.input.domain_record = NoRecord
    /\ args.input.status_code = "EXPIRED"
    /\ ret = ReturnResult(args.input)
    /\ rpcLog = <<>>

\* C12: the record get_latest_domain_state returns has the creation_height,
\* creation_timestamp, expiration_timestamp and registration_update_height of the record
\* it was given, and the step leaves the result it was given as it was.
C12_GetLatestFrame ==
    [][(pc = "get_latest") =>
          /\ args' = args
          /\ results' = results
          /\ (ret'.kind = "result" /\ GetLatestInput.domain_record # NoRecord) =>
                 LET old == GetLatestInput.domain_record
                     new == ret'.result.domain_record
                 IN  /\ new.creation_height = old.creation_height
                     /\ new.creation_timestamp = old.creation_timestamp
                     /\ new.expiration_timestamp = old.expiration_timestamp
                     /\ new.registration_update_height = old.registration_update_height
                     /\ new.launcher_id = old.launcher_id]_vars

\* C12, reached: the tip was spent after the launch with another public key, so the
\* state fields and state_update_height differ while the registration fields do not
C12_Witness ==
    /\ Returned("get_latest_domain_state")
    /\ ret.kind = "result"
    /\ args.input.domain_record # NoRecord
    /\ ret.result.domain_record.state_update_height
          > args.input.domain_record.state_update_height
    /\ ret.result.domain_record.pub_key # args.input.domain_record.pub_key
    /\ ret.result.domain_record.creation_height = args.input.domain_record.creation_height
    /\ ret.result.domain_record.registration_update_height
          = args.input.domain_record.registration_update_height

\* C20: every result resolve_domain returns with a status other than NOT_FOUND carries a
\* domain record.
C20_ResolvedResultHasRecord ==
    (Returned("resolve_domain") /\ ret.kind = "result"
        /\ ret.result.status_code # "NOT_FOUND") =>
            ret.result.domain_record # NoRecord

(* ------------------------------------------------------------------ *)
(* Properties of the drivers and the wallet                           *)
(* ------------------------------------------------------------------ *)
\* the solution arguments as the program the ledger receives
SolutionProgram(solution_args) == [i \in 1..Len(solution_args) |-> Program_to(solution_args[i])]

\* C13: generate_solution_args with no pubkey, no metadata and renew false raises and
\* leaves the stored solution arguments as they were; with a new pubkey it stores the
\* transfer form (mode 0, the metadata given or else the current metadata, the new
\* pubkey) whether or not renew is requested; otherwise renew stores (mode 1, the
\* metadata given or else false, 0) and metadata alone stores (mode 0, metadata, 0).
\* The forms are compared as the programs they serialise to, after the parent coin id.
C13_SolutionArgsForms ==
    wop.name = "generate_solution_args" =>
        LET given(x, otherwise) == IF x = None THEN otherwise ELSE x
            parent == latest_coin.parent_coin_info
        IN  IF wop.new_pubkey = None /\ wop.new_metadata = None /\ ~wop.renew
            THEN /\ wret.kind = "raise"
                 /\ wret.error = "ValueError: No arguments provided"
                 /\ inner.solution_args = wop.before.solution_args
            ELSE /\ wret.kind = "return"
                 /\ Len(inner.solution_args) = 4
                 /\ SolutionProgram(inner.solution_args) =
                        SolutionProgram(
                            IF wop.new_pubkey # None
                            THEN <<parent, PyInt("0"), given(wop.new_metadata, wop.before.cur_metadata), wop.new_pubkey>>
                            ELSE IF wop.renew
                            THEN <<parent, PyInt("1"), given(wop.new_metadata, PyBool("False")), PyInt("0")>>
                            ELSE <<parent, PyInt("0"), wop.new_metadata, PyInt("0")>>)

\* a pubkey and renew were both requested on an object holding renewal arguments, and
\* the transfer form was stored
C13_Witness ==
    /\ wop.name = "generate_solution_args"
    /\ wop.new_pubkey # None
    /\ wop.renew
    /\ wop.new_metadata = None
    /\ Len(wop.before.solution_args) = 4
    /\ wop.before.solution_args[2] = PyInt("1")
    /\ inner.solution_args = <<latest_coin.parent_coin_info, PyInt("0"), wop.before.cur_metadata, wop.new_pubkey>>

\* the last call was one of the wallet's three operations on an existing domain, made
\* with a private key whose public key is not the one the inner puzzle holds
KeyMismatchCall(o) ==
    /\ o.name \in {"renew_domain", "update_metadata", "update_pubkey"}
    /\ o.before # NoPuzzle
    /\ get_g1(o.private_key) # o.before.cur_pub_key

SpendEffects == {"to_coin_spend", "sign_coin_spend", "fee_to_spend_bundle", "create_signed_transaction", "push_tx"}

\* C14: in renew, update_metadata and update_pubkey, a private key whose public key
\* differs from the pubkey the inner puzzle holds makes the operation fail with the
\* key-mismatch error before any coin spend is built or signed and before any spend
\* bundle is pushed: the ledger's spend of the domain stays what it was.
C14_KeyMismatchAbortsBeforeSpend ==
    [][KeyMismatchCall(wop') =>
          /\ wret'.kind = "raise"
          /\ wret'.error = "ValueError: Private key does not match public key"
          /\ wret'.spend = NoSpend
          /\ \A i \in 1..Len(effects') : effects'[i] \notin SpendEffects
          /\ tip' = tip]_vars

\* update_metadata on a launched domain with the other key has raised
C14_Witness ==
    /\ KeyMismatchCall(wop)
    /\ wop.name = "update_metadata"
    /\ tip # NoSpend
    /\ wret.kind = "raise"
    /\ effects = <<"resolve_domain", "generate_solution_args">>

\* the last call was a wallet operation that pushed the spend the ledger now holds
PushedBy(names) ==
    /\ wop.name \in names
    /\ wret.kind = "return"
    /\ tip # NoSpend
    /\ wret.spend = tip

AtLeast(a, b) == a.giga > b.giga \/ (a.giga = b.giga /\ a.units >= b.units)

\* C19: create_singleton_from_inner requires base_coin.amount >= SINGLETON_AMOUNT plus
\* the fee amount, the fee being what goes to the fee puzzle (TOTAL_FEE_AMOUNT), which
\* makes the threshold TOTAL_NEW_DOMAIN_AMOUNT: for any smaller base coin it raises an
\* error and builds no spend, and it accepts every base coin at or above the threshold.
C19_LaunchNeedsSingletonAndFee ==
    wop.name = "create_singleton_from_inner" =>
        IF AtLeast(wop.amount, mojos_add(SINGLETON_AMOUNT, TOTAL_FEE_AMOUNT))
        THEN /\ wret.kind = "return"
             /\ wret.spend # NoSpend
             /\ \E i \in 1..Len(effects) : effects[i] = "sign_coin_spend"
        ELSE /\ wret.kind = "raise"
             /\ wret.error = "ValueError: Base coin must be at least 1000000002 mojo's"
             /\ wret.spend = NoSpend
             /\ effects = <<>>
             /\ inner = wop.before

\* a base coin of exactly TOTAL_NEW_DOMAIN_AMOUNT mojos was accepted
C19_Witness ==
    /\ wop.name = "create_singleton_from_inner"
    /\ wop.amount = TOTAL_NEW_DOMAIN_AMOUNT
    /\ wop.amount = Mojos(10, 2)
    /\ wret.kind = "return"
    /\ wret.spend # NoSpend

(* ------------------------------------------------------------------ *)
(* Properties of DomainMetadata                                       *)
(* ------------------------------------------------------------------ *)
\* key k indicates one of the three known families
IndicatesFamily(k) ==
    \E family \in {<<"x", "c", "h">>, <<"n", "f", "t">>, <<"d", "i", "d">>} : contains(lower(k), family)

\* C16: from_dict accepts a chain_records key that contains xch, nft or did in any
\* case and rejects a key that contains none of them, so that from_dict(to_dict(m))
\* succeeds and equals m for every metadata m that to_dict can encode.
C16_FromDictAcceptsKnownFamilies ==
    (mback # NotConverted /\ mdict.dict.metadata_version = METADATA_FORMAT_VERSION) =>
        /\ mback.raised <=> \E k \in DOMAIN mdict.dict.chain_records : ~IndicatesFamily(k)
        /\ meta # NoMetadata => (~mback.raised /\ mback.metadata = meta)

(* ------------------------------------------------------------------ *)
(* Properties of the API server and its cache                         *)
(* ------------------------------------------------------------------ *)
\* the age of a cached answer
Age(answer) == now - answer.resolved_at

\* C17: every entry written to the resolve cache has a bounded lifetime: whatever the
\* writes, capacity evictions and sweeps, the cleanup task never fails before the
\* cache is stopped, a sweep leaves no entry that is older than the lifetime, and so
\* no answer older than the lifetime plus one sleep of the sweep is served from the
\* cache.
C17_CacheEntriesHaveBoundedLifetime ==
    /\ cleanup_task # "failed"
    /\ cache_calls = <<"cleanup">> =>
          \A i \in 1..Len(fifo_cache.dict) : Age(fifo_cache.dict[i].value) <= CacheLifetime
    /\ (cache_calls = <<"get">> /\ served.from_cache) =>
          Age(served.body) <= CacheLifetime + CleanupSleep

\* a step of the resolve handler, and the query it handles
HandlerStep ==
    /\ now' = now
    /\ cleanup_task' = cleanup_task
    /\ next_sweep' = next_sweep
    /\ <<pending, served, cache_calls>>' # <<pending, served, cache_calls>>

Handled ==
    IF pending # NoRequest THEN pending
    ELSE IF pending' # NoRequest THEN pending'
    ELSE served'.request

\* C18: a resolve request that carries a launcher id never reads from and never
\* writes to the cache; a request without a launcher id returns the cached value
\* stored under its domain name when there is one, and otherwise resolves afresh and
\* stores that result under the domain name.
C18_LauncherIdBypassesCache ==
    [][HandlerStep =>
          LET cached == dict_get(fifo_cache.dict, Handled.domain_name)
          IN  /\ Handled.launcher_id_hex # "None" =>
                    /\ fifo_cache' = fifo_cache
                    /\ cache_calls' = <<>>
                    /\ pending' = NoRequest => ~served'.from_cache
              /\ (Handled.launcher_id_hex = "None" /\ Handled.domain_name # "" /\ pending = NoRequest) =>
                    /\ cache_calls' = <<"get">>
                    /\ fifo_cache' = fifo_cache
                    /\ IF cached # NoAnswer
                       THEN pending' = NoRequest /\ served' = Response(200, cached, Handled, TRUE)
                       ELSE pending' = Handled /\ served' = served
              /\ (Handled.launcher_id_hex = "None" /\ pending # NoRequest /\ served'.status = 200) =>
                    /\ cache_calls' = <<"set">>
                    /\ ~served'.from_cache
                    /\ served'.body.resolved_at = now
                    /\ dict_get(fifo_cache'.dict, Handled.domain_name) = served'.body]_vars

\* a query with a launcher id was answered afresh while the cache held another answer
\* under the same name, and the cache was not touched
C18_Witness ==
    /\ served.request.launcher_id_hex = "aa"
    /\ served.status = 200
    /\ cache_calls = <<>>
    /\ dict_has(fifo_cache.dict, served.request.domain_name)
    /\ dict_get(fifo_cache.dict, served.request.domain_name) # served.body
    /\ served.body.resolved_at = now

(* ------------------------------------------------------------------ *)
(* Properties of discovery: spoofed markers and unlinked coins        *)
(* ------------------------------------------------------------------ *)
\* the (height, timestamp) pairs observed for launcher id l on identity-puzzle coins
ObservedPairs(l) == {<<m.confirmed_block_index, m.timestamp>> : m \in RenewalCoins(l)}

\* the launcher-id group of l has a first singleton, and it was not confirmed in a block
\* the group's identity coins name
Spoofed(l) ==
    /\ RenewalCoins(l) # {}
    /\ lineages[l] # NoLineage
    /\ <<lineages[l].creation_height, lineages[l].creation_timestamp>> \notin ObservedPairs(l)

\* the launcher-id group of l passes every test of part 2 of discover_all_domains
Genuine(l) ==
    /\ lineages[l] # NoLineage
    /\ lineages[l].first_spend = "ok"
    /\ <<lineages[l].creation_height, lineages[l].creation_timestamp>> \in ObservedPairs(l)

\* C21: every record discover_all_domains returns has the creation height and timestamp of
\* its lineage's first singleton, and that pair is among the (height, timestamp) pairs of
\* the identity coins naming its launcher id; a group without the match is left out with no
\* error, and every other group the call asks for is still returned.
C21_AntiSpoofing ==
    Returned("discover_all_domains") =>
        /\ ~sawUnsynced => ret.kind = "list"
        /\ ret.kind = "list" =>
            /\ \A i \in 1..Len(ret.list) :
                LET rec == ret.list[i].domain_record
                IN  /\ lineages[rec.launcher_id] # NoLineage
                    /\ rec.creation_height = lineages[rec.launcher_id].creation_height
                    /\ rec.creation_timestamp = lineages[rec.launcher_id].creation_timestamp
                    /\ <<rec.creation_height, rec.creation_timestamp>>
                           \in ObservedPairs(rec.launcher_id)
            /\ \A l \in LauncherIds :
                (Genuine(l) /\ args.launcher_id \in {NoLauncher, l}) =>
                    Cardinality({i \in 1..Len(ret.list) :
                                    ret.list[i].domain_record.launcher_id = l}) = 1

\* C21, reached: a singleton whose launcher id a fee spend of another block names is left
\* out of the list, which is returned without an error
C21_Witness ==
    /\ Returned("discover_all_domains")
    /\ ret.kind = "list"
    /\ args.launcher_id = NoLauncher
    /\ \E l \in LauncherIds :
        /\ Spoofed(l)
        /\ lineages[l].first_spend = "ok"
        /\ \A i \in 1..Len(ret.list) : ret.list[i].domain_record.launcher_id # l

\* the creating spend has the shape that links a coin to a launcher id
HasLinkage(coin_spend) ==
    /\ coin_spend.present
    /\ coin_spend.puzzle_hash = "REGISTRATION_FEE_MOD_HASH"
    /\ \E i \in 1..Len(coin_spend.conditions) :
        LET condition == coin_spend.conditions[i]
        IN  /\ condition.opcode = "CREATE_COIN"
            /\ condition.length >= 4
            /\ condition.memos.kind = "list"
            /\ condition.memos.items[1].kind = "atom"
            /\ condition.memos.items[1].size = 32

\* C22: a creating spend without the linkage shape (no spend, another puzzle hash, no
\* CREATE_COIN with a memo list, a memo whose first element is not 32 bytes long) gives no
\* launcher id and no error: part 1 of discover_all_domains returns, with one launcher id
\* for each coin whose creating spend has the shape.
C22_UnlinkedSpendIsExcluded ==
    ids_out # NoReturn =>
        /\ \A i \in 1..Len(spends_in) :
            ~HasLinkage(spends_in[i]) => validate_initial_spend_of(spends_in[i]) = Returns(None)
        /\ ids_out.kind = "list"
        /\ Len(ids_out.list) = Cardinality({i \in 1..Len(spends_in) : HasLinkage(spends_in[i])})

(* ------------------------------------------------------------------ *)
(* Properties of the typed-atom decoder                               *)
(* ------------------------------------------------------------------ *)
\* the typed value of one atom
TypedAtom(p) ==
    IF p.size = 32 THEN PyBytes32(p.items[1])
    ELSE IF p.size = 48 THEN PyG1Element(p.items[1])
    ELSE IF p = Atom(1, "01") THEN PyBool("True")
    ELSE IF p = Nil THEN PyBool("False")
    ELSE PyBytes(p.items[1])

\* the typed value of a program, every atom inside its lists included
RECURSIVE TypedDeep(_)
TypedDeep(p) ==
    IF p.kind = "atom" THEN TypedAtom(p)
    ELSE PyList([i \in 1..Len(p.items) |-> TypedDeep(p.items[i])])

ChildLookups ==
    Cardinality({i \in 1..Len(rpcLog) :
                    rpcLog[i] = <<"get_latest_domain_state", "get_coin_records_by_parent_ids">>})

\* C23: for a result with a record, get_latest_domain_state goes from the record's coin to
\* its child and on while the coin reached is spent, one lookup for each coin passed, and
\* returns the record decoded from the spend that created the lineage's unspent coin, with
\* state_update_height the height that coin was confirmed at.
C23_GetLatestReachesTheTip ==
    (/\ Returned("get_latest_domain_state") \/ Returned("resolve_domain")
     /\ ret.kind = "result"
     /\ ret.result.domain_record # NoRecord) =>
        LET rec == ret.result.domain_record
            l == rec.launcher_id
            n == Len(lineages[l].spends)
        IN  /\ rec.full_spend = CoinSpend(l, n, lineages[l].spends[n])
            /\ rec.pub_key = lineages[l].spends[n].pub_key
            /\ rec.domain_metadata = lineages[l].spends[n].metadata
            /\ rec.state_update_height = lineages[l].spends[n].height
            /\ ChildLookups = n + 1 - GetLatestInput.domain_record.full_spend.generation

\* C23, reached: the walk passed a spent child and stopped at the coin the second spend
\* of the lineage created
C23_Witness ==
    /\ Returned("get_latest_domain_state")
    /\ ret.kind = "result"
    /\ ret.result.domain_record # NoRecord
    /\ Len(lineages[ret.result.domain_record.launcher_id].spends) = 2
    /\ ret.result.domain_record.full_spend.generation = 2
    /\ ChildLookups = 2
    /\ ret.result.domain_record.state_update_height > args.input.domain_record.state_update_height

(* ------------------------------------------------------------------ *)
(* Properties of resolve_domain with a launcher id                    *)
(* ------------------------------------------------------------------ *)
\* resolve_domain was called with a launcher id and has returned a result
ResolvedFor(l) ==
    /\ Returned("resolve_domain")
    /\ args.launcher_id = l
    /\ ret.kind = "result"

\* C24: resolve_domain with launcher id L does not call filter_domains; what it returns
\* with a record is the record of lineage L, LATEST while L is not expired at the peak,
\* GRACE_PERIOD or EXPIRED with the record otherwise, whatever other lineages of the name
\* there are; it returns no record of another launcher id.
C24_LauncherIdSkipsFilter ==
    \A l \in LauncherIds :
        ResolvedFor(l) =>
            /\ \A i \in 1..Len(rpcLog) : rpcLog[i][1] # "filter_domains"
            /\ ret.result.status_code \in {"NOT_FOUND", "LATEST", "GRACE_PERIOD", "EXPIRED"}
            /\ ret.result.status_code = "NOT_FOUND" <=> ret.result.domain_record = NoRecord
            /\ ret.result.domain_record # NoRecord =>
                LET rec == ret.result.domain_record
                IN  /\ rec.launcher_id = l
                    /\ rec.creation_height = lineages[l].creation_height
                    /\ ret.result.status_code = "LATEST"
                           <=> peak.timestamp <= rec.expiration_timestamp
                    /\ ret.result.status_code = "GRACE_PERIOD"
                           <=> /\ rec.expiration_timestamp < peak.timestamp
                               /\ peak.timestamp < rec.expiration_timestamp + GRACE_PERIOD
            /\ Genuine(l) => ret.result.domain_record # NoRecord

\* C24, reached: the lineage asked for was launched after another lineage of the name that
\* is not expired, and is returned as LATEST
C24_Witness ==
    \E l \in LauncherIds, o \in LauncherIds :
        /\ ResolvedFor(l)
        /\ ret.result.domain_record # NoRecord
        /\ o # l
        /\ Genuine(o)
        /\ lineages[o].creation_height < lineages[l].creation_height
        /\ peak.timestamp <= lineages[o].creation_timestamp + REGISTRATION_LENGTH
        /\ ret.result.status_code = "LATEST"
        /\ ret.result.domain_record.launcher_id = l

(* ------------------------------------------------------------------ *)
(* Properties of resolution against the order of the node's answers   *)
(* ------------------------------------------------------------------ *)
\* what the running resolve_domain returns from a synced node that answers with the coin
\* records in the order all_coin_records and the first singletons in the order
\* launcher_children_list
ResolveIn(all_coin_records, launcher_children_list) ==
    LET found == discover_all_domains(all_coin_records, args.launcher_id,
                                      launcher_children_list, peak.timestamp)
        next == resolve_after_discover(found, args.launcher_id)
        cur_record == IF next.pc = "filter"
                      THEN filter_domains(found, args.grace_period, FALSE).list[1]
                      ELSE next.results[1]
    IN  IF next.pc = "done" THEN next.ret.result
        ELSE IF cur_record.domain_record = NoRecord THEN cur_record
        ELSE get_latest_domain_state(cur_record)

\* two results name the same lineage with the same status and expiration
SameResolution(a, b) ==
    /\ a.status_code = b.status_code
    /\ (a.domain_record = NoRecord) <=> (b.domain_record = NoRecord)
    /\ a.domain_record # NoRecord =>
        /\ a.domain_record.launcher_id = b.domain_record.launcher_id
        /\ a.domain_record.expiration_timestamp = b.domain_record.expiration_timestamp

\* C25: on one ledger state, resolve_domain returns the same lineage, status and
\* expiration whatever the order the node returns the coin records and the first
\* singletons in: what a run returned is what a run with any other order returns.
C25_ResolutionIgnoresOrder ==
    (Returned("resolve_domain") /\ ret.kind = "result") =>
        \A all_coin_records \in get_coin_records_by_puzzle_hash :
            \A launcher_children_list \in
                   Orderings(launcher_children(launcher_id_keys(all_coin_records,
                                                                args.launcher_id))) :
                SameResolution(ret.result, ResolveIn(all_coin_records, launcher_children_list))

\* C25, reached: two lineages of the name survive the filter, so that the node has two
\* orders to return their coins and first singletons in, and one of them was resolved
C25_Witness ==
    /\ Returned("resolve_domain")
    /\ ret.kind = "result"
    /\ args.launcher_id = NoLauncher
    /\ Cardinality(get_coin_records_by_puzzle_hash) = 2
    /\ \A l \in LauncherIds :
        /\ Genuine(l)
        /\ peak.timestamp <= lineages[l].creation_timestamp + REGISTRATION_LENGTH
    /\ ret.result.status_code = "LATEST"

(* ------------------------------------------------------------------ *)
(* Properties of renewals and updates on the ledger                   *)
(* ------------------------------------------------------------------ *)
\* the record discover_all_domains builds for lineage l from the ledger as it is
DiscoveredRecord(l) ==
    LET all_coin_records == CHOOSE a \in get_coin_records_by_puzzle_hash : TRUE
        first_domain_cr == CHOOSE cr \in launcher_children({l}) : TRUE
    IN  discover_result(all_coin_records, first_domain_cr, NoLauncher,
                        peak.timestamp).domain_record

\* the tip of lineage l is spent in this step
SpendOf(l) ==
    /\ lineages[l] # NoLineage
    /\ Len(lineages'[l].spends) = Len(lineages[l].spends) + 1

\* C26: a renew spend of a discovered lineage comes with one new amount-1 identity coin
\* naming the lineage and raises the expiration_timestamp discovery computes for it by
\* exactly REGISTRATION_LENGTH; an update of the metadata or the public key comes with no
\* such coin and leaves expiration_timestamp and registration_update_height as they were.
C26_RenewAddsOnePeriod ==
    [][\A l \in LauncherIds :
        (Genuine(l) /\ SpendOf(l)) =>
            /\ RenewDomain =>
                /\ RenewalEvents(l)' = RenewalEvents(l) + 1
                /\ DiscoveredRecord(l)'.expiration_timestamp
                       = DiscoveredRecord(l).expiration_timestamp + REGISTRATION_LENGTH
            /\ UpdateState =>
                /\ RenewalEvents(l)' = RenewalEvents(l)
                /\ DiscoveredRecord(l)'.expiration_timestamp
                       = DiscoveredRecord(l).expiration_timestamp
                /\ DiscoveredRecord(l)'.registration_update_height
                       = DiscoveredRecord(l).registration_update_height]_vars

\* C26, reached: a lineage registered and renewed once, whose computed expiration is one
\* REGISTRATION_LENGTH past the one of its registration
C26_Witness ==
    \E l \in LauncherIds :
        /\ Genuine(l)
        /\ Len(lineages[l].spends) = 2
        /\ RenewalEvents(l) = 2
        /\ DiscoveredRecord(l).registration_update_height > lineages[l].creation_height
        /\ DiscoveredRecord(l).expiration_timestamp
               = _calculate_expiration_timestamp(lineages[l].creation_timestamp,
                                                 <<lineages[l].creation_timestamp>>)
                 + REGISTRATION_LENGTH

(* ------------------------------------------------------------------ *)
(* Properties of the cache's capacity                                 *)
(* ------------------------------------------------------------------ *)
\* the keys of the cache, the one inserted first of those it holds first
CacheKeys(cache) == [i \in 1..Len(cache.dict) |-> cache.dict[i].key]

\* the key the write of this step was for
WrittenKey == fifo_cache'.key_time_list[Len(fifo_cache'.key_time_list)].key

\* C28: the cache never holds more than max_size entries; a write of a key it does not
\* hold when it is full removes the key inserted first and no other and adds the new key
\* last; a write of a key it holds removes nothing and leaves the keys in their order.
C28_CapacityEvictsOldestOnly ==
    [][/\ Len(fifo_cache'.dict) <= MaxSize
       /\ SetItem =>
            /\ dict_has(fifo_cache'.dict, WrittenKey)
            /\ IF dict_has(fifo_cache.dict, WrittenKey)
               THEN CacheKeys(fifo_cache') = CacheKeys(fifo_cache)
               ELSE IF Len(fifo_cache.dict) >= MaxSize
               THEN CacheKeys(fifo_cache') = Tail(CacheKeys(fifo_cache)) \o <<WrittenKey>>
               ELSE CacheKeys(fifo_cache') = CacheKeys(fifo_cache) \o <<WrittenKey>>]_vars

\* C28, reached: the cache, full with two keys, was written with a third: the key inserted
\* first went, the other stayed and the new key came last
C28_Witness ==
    /\ cache_calls = <<"set">>
    /\ Len(fifo_cache.key_time_list) = 3
    /\ fifo_cache.key_time_list[1].key = "a.xch"
    /\ fifo_cache.key_time_list[2].key = "b.xch"
    /\ fifo_cache.key_time_list[3].key = "c.xch"
    /\ CacheKeys(fifo_cache) = <<"b.xch", "c.xch">>

(* ------------------------------------------------------------------ *)
(* Properties of the winner over time                                 *)
(* ------------------------------------------------------------------ *)
\* the blocks before the peak whose timestamp the ledger records
PastBlocks ==
    {b \in {[height |-> m.confirmed_block_index, timestamp |-> m.timestamp] :
                m \in DOMAIN markers} : b.height < peak.height}

\* what discover_all_domains and filter_domains select for resolve_domain(domain_name)
\* from the ledger as it was when block was the peak
WinnerAt(block) ==
    LET all_coin_records ==
            SelectSeq(CHOOSE a \in get_coin_records_by_puzzle_hash : TRUE,
                      LAMBDA cr : cr.confirmed_block_index <= block.height)
        children ==
            {cr \in launcher_children(launcher_id_keys(all_coin_records, NoLauncher)) :
                cr.confirmed_block_index <= block.height}
        found == discover_all_domains(all_coin_records, NoLauncher,
                                      CHOOSE o \in Orderings(children) : TRUE,
                                      block.timestamp)
    IN  IF found = <<>> THEN ResolutionResult(DomainName, "NOT_FOUND", NoRecord)
        ELSE filter_domains(found, FALSE, FALSE).list[1]

\* C29: if resolve_domain(domain_name) gave lineage B as LATEST when an earlier block was
\* the peak and B is not expired at the peak of now, it gives B as LATEST now: no launch,
\* renewal or update confirmed since, on B or on another lineage of the name, changes the
\* winner.
C29_WinnerStability ==
    \A block \in PastBlocks :
        LET before == WinnerAt(block)
            after == WinnerAt(peak)
        IN  (/\ before.status_code = "FOUND"
             /\ peak.timestamp
                    <= DiscoveredRecord(before.domain_record.launcher_id).expiration_timestamp) =>
                /\ after.status_code = "FOUND"
                /\ after.domain_record.launcher_id = before.domain_record.launcher_id

(* ------------------------------------------------------------------ *)
(* C30: two create_domain wallet_calls for one name                          *)
(* ------------------------------------------------------------------ *)
\* the wallets that pushed a registration bundle while the ledger held the given state
\* of the name
PushedOver(state) == {w \in Wallets : wallet_calls[w].pushed_over = state}

\* the call of w was shown an unexpired lineage by its check
FoundExisting(w) ==
    /\ wallet_calls[w].final_record.kind = "list"
    /\ wallet_calls[w].final_record.list[1].status_code = "FOUND"

\* C30: however two create_domain calls for the same name (skip_existing_check = false)
\* interleave, at most one of them pushes a registration bundle while the name has no
\* unexpired lineage, none pushes one while the ledger holds an unexpired lineage of
\* the name, and a call whose check finds an unexpired lineage returns None having
\* selected no coin and pushed nothing.
C30_AtMostOneRegistration ==
    /\ Cardinality(PushedOver("free")) <= 1
    /\ PushedOver("taken") = {}
    /\ \A w \in Wallets :
        FoundExisting(w) => /\ wallet_calls[w].ret = Returns(None)
                            /\ wallet_calls[w].effects = <<>>

====
